---------------------------- MODULE Spec2Model ----------------------------
(***************************************************************************)
(* A model of the OGN-flavoured APRS-IS sentence decoder of enrouteOGN     *)
(* (src/lib/OgnParser.cpp, src/lib/OgnParser.h) and of the loop that       *)
(* drives it (src/dumpOGN/dumpOGN.cpp, src/tests/OgnParserTest.cpp).       *)
(*                                                                         *)
(* Representation.                                                         *)
(*  - A text is a sequence of one-character strings.  Indices in the       *)
(*    operators below are 0-based, as in the C++ source.                   *)
(*  - A std::string_view is a record [pos, len]: a window of the record's  *)
(*    sentence text (pos is the 0-based offset of its first character).    *)
(*  - A uint32_t is a record [hi, lo] of two 16-bit halves, so that the    *)
(*    whole 32-bit range is kept although TLC's integers are 32-bit        *)
(*    signed.  An int is a TLC integer.                                    *)
(*  - A double is modelled exactly, as a record [nan, v] with v an integer *)
(*    number of units; the unit of each field is                           *)
(*       latitude, longitude : 1/600000 degree (1e-4 minute)               *)
(*       altitude            : 0.0004 m   (1 foot = 762 units)             *)
(*       verticalSpeed       : 0.00004 m/s (1 fpm = 127 units)             *)
(*       course, speed       : 1 degree, 1 knot                            *)
(*       pressure            : 0.1 hPa, kept as the uint32_t it comes from *)
(*    Floating-point rounding is not modelled.                             *)
(*  - std::from_chars for double is modelled on texts without exponent,    *)
(*    "inf" and "nan" spellings (the input alphabets below have none).     *)
(*    The model follows the std::from_chars build of decodeLatitude and    *)
(*    decodeLongitude (the #else branches), not the strtod build.          *)
(***************************************************************************)
EXTENDS Integers, Sequences, FiniteSets, TLC

VARIABLES
    msg,        \* the OgnMessage record being decoded
    pc,         \* position of the driver: idle, call, loop, done
    ognPart,    \* parseTrafficReport's local ognPart (a view)
    it,         \* parseTrafficReport's loop iterator, an offset into ognPart
    oob,        \* ghost: some character access so far was out of range
    lastAircraftType,   \* formatPositionReport's static lastAircraftType
    lastSymbol,         \* formatPositionReport's static lastSymbol
    formatted,  \* the formatter call that has returned, and its return value
    threads,    \* per thread: its place in formatPositionReport and its locals
    reader      \* dumpOGN's connection, readLine's buffer, and the lines returned

vars == <<msg, pc, ognPart, it, oob, lastAircraftType, lastSymbol, formatted, threads, reader>>


-----------------------------------------------------------------------------
(* Characters and texts *)

Digits == <<"0", "1", "2", "3", "4", "5", "6", "7", "8", "9">>

HexDigits ==
    <<"0", "1", "2", "3", "4", "5", "6", "7", "8", "9", "A", "B", "C", "D", "E", "F">>

HexDigitsLower ==
    <<"0", "1", "2", "3", "4", "5", "6", "7", "8", "9", "a", "b", "c", "d", "e", "f">>

IndexIn(c, table) ==
    IF \E i \in 1..Len(table) : table[i] = c
    THEN (CHOOSE i \in 1..Len(table) : table[i] = c) - 1
    ELSE 0 - 1

IsDigit(c) == IndexIn(c, Digits) >= 0

DigitVal(c) == IndexIn(c, Digits)

IsHexDigit(c) == IndexIn(c, HexDigits) >= 0 \/ IndexIn(c, HexDigitsLower) >= 0

HexVal(c) ==
    IF IndexIn(c, HexDigits) >= 0 THEN IndexIn(c, HexDigits) ELSE IndexIn(c, HexDigitsLower)

Min(a, b) == IF a <= b THEN a ELSE b

Max(a, b) == IF a >= b THEN a ELSE b

npos == 0 - 1

\* The character a read outside the text is modelled to return.
OutOfRangeChar == "<out of range>"

-----------------------------------------------------------------------------
(* std::string_view over the sentence text s *)

View(p, n) == [pos |-> p, len |-> n]

EmptyView == View(0, 0)

WholeView(s) == View(0, Len(s))

\* view[i]
At(s, v, i) ==
    IF i >= 0 /\ i < v.len /\ v.pos + i + 1 \in 1..Len(s)
    THEN s[v.pos + i + 1]
    ELSE OutOfRangeChar

\* view.substr(p, n): n is clamped to the size; p > size() throws in C++.
Substr(v, p, n) ==
    IF p >= 0 /\ p <= v.len
    THEN View(v.pos + p, Min(n, v.len - p))
    ELSE EmptyView

\* view.substr(p)
SubstrFrom(v, p) == Substr(v, p, v.len)

\* The characters of a view.
TextOf(s, v) == [i \in 1..v.len |-> At(s, v, i - 1)]

\* view.find(pattern, from): the first index >= from where pattern begins.
Find(s, v, pattern, from) ==
    LET hits == {i \in from..(v.len - Len(pattern)) :
                    \A k \in 1..Len(pattern) : At(s, v, i + k - 1) = pattern[k]}
    IN  IF hits = {} THEN npos ELSE CHOOSE i \in hits : \A j \in hits : i <= j

starts_with(s, sv, prefix) ==
    /\ sv.len >= Len(prefix)
    /\ TextOf(s, Substr(sv, 0, Len(prefix))) = prefix

ends_with(s, sv, suffix) ==
    /\ sv.len >= Len(suffix)
    /\ TextOf(s, SubstrFrom(sv, sv.len - Len(suffix))) = suffix

-----------------------------------------------------------------------------
(* Numbers: uint32_t, int, double and std::from_chars *)

Half == 256 * 256

U32(h, l) == [hi |-> h, lo |-> l]

\* The uint32_t with value n, for 0 <= n < 2^31.
U32Of(n) == U32(n \div Half, n % Half)

\* static_cast<uint32_t>(n) of an int n: n modulo 2^32.
CastToU32(n) == U32((n \div Half) % Half, n % Half)

DigitSet == {Digits[i] : i \in 1..Len(Digits)}

HexDigitSet == {HexDigits[i] : i \in 1..Len(HexDigits)}
                 \cup {HexDigitsLower[i] : i \in 1..Len(HexDigitsLower)}

\* The number of consecutive characters of v, from index from on, that are in class.
RunLength(s, v, from, class) ==
    LET stops == {j \in from..v.len :
                     /\ \A k \in from..(j - 1) : At(s, v, k) \in class
                     /\ (j = v.len \/ At(s, v, j) \notin class)}
    IN  IF from > v.len THEN 0 ELSE (CHOOSE j \in stops : TRUE) - from

RECURSIVE Accumulate(_, _, _, _, _, _)
\* The value of the n digits of v from index i on, in the given base, added to
\* acc = [hi, lo, over]; over is set once the value leaves the 32-bit range.
Accumulate(s, v, i, n, base, acc) ==
    IF n = 0 THEN acc
    ELSE LET d == HexVal(At(s, v, i))
             t == acc.lo * base + d
             h == acc.hi * base + (t \div Half)
         IN  IF acc.over \/ h >= Half
             THEN [hi |-> 0, lo |-> 0, over |-> TRUE]
             ELSE Accumulate(s, v, i + 1, n - 1, base, [hi |-> h, lo |-> t % Half, over |-> FALSE])

FromCharsResult(e, x) == [ec |-> e, value |-> x]

\* std::from_chars(first, last, uint32_t&, base): no sign is accepted.
FromCharsU32(s, v, base) ==
    LET n   == RunLength(s, v, 0, IF base = 16 THEN HexDigitSet ELSE DigitSet)
        acc == Accumulate(s, v, 0, n, base, [hi |-> 0, lo |-> 0, over |-> FALSE])
    IN  IF n = 0 THEN FromCharsResult("invalid_argument", U32(0, 0))
        ELSE IF acc.over THEN FromCharsResult("result_out_of_range", U32(0, 0))
        ELSE FromCharsResult("ok", U32(acc.hi, acc.lo))

\* std::from_chars(first, last, int&): an optional '-' and decimal digits.
FromCharsInt(s, v) ==
    LET neg   == v.len > 0 /\ At(s, v, 0) = "-"
        first == IF neg THEN 1 ELSE 0
        n     == RunLength(s, v, first, DigitSet)
        acc   == Accumulate(s, v, first, n, 10, [hi |-> 0, lo |-> 0, over |-> FALSE])
        fits  == /\ ~acc.over
                 /\ \/ acc.hi < Half \div 2
                    \/ neg /\ acc.hi = Half \div 2 /\ acc.lo = 0
    IN  IF n = 0 THEN FromCharsResult("invalid_argument", 0)
        ELSE IF ~fits THEN FromCharsResult("result_out_of_range", 0)
        ELSE IF neg THEN FromCharsResult("ok", (0 - acc.hi) * Half - acc.lo)
        ELSE FromCharsResult("ok", acc.hi * Half + acc.lo)

RECURSIVE Pow10(_)
Pow10(k) == IF k <= 0 THEN 1 ELSE 10 * Pow10(k - 1)

RECURSIVE DecimalValue(_, _, _, _)
\* The value of the n decimal digits of v that end before index to.
DecimalValue(s, v, to, n) ==
    IF n = 0 THEN 0
    ELSE 10 * DecimalValue(s, v, to - 1, n - 1) + DigitVal(At(s, v, to - 1))

\* std::from_chars(first, last, double&) on a text without exponent: an
\* optional '-', digits, an optional '.' and digits; at least one digit.
\* The value is mant / 10^frac.
FromCharsDouble(s, v) ==
    LET neg   == v.len > 0 /\ At(s, v, 0) = "-"
        first == IF neg THEN 1 ELSE 0
        a     == RunLength(s, v, first, DigitSet)
        dot   == first + a < v.len /\ At(s, v, first + a) = "."
        b     == IF dot THEN RunLength(s, v, first + a + 1, DigitSet) ELSE 0
        whole == DecimalValue(s, v, first + a, a)
        part  == DecimalValue(s, v, first + a + 1 + b, b)
        m     == whole * Pow10(b) + part
    IN  IF a + b = 0 THEN [ec |-> "invalid_argument", mant |-> 0, frac |-> 0]
        ELSE [ec |-> "ok", mant |-> IF neg THEN 0 - m ELSE m, frac |-> b]

NaN == [nan |-> TRUE, v |-> 0]

Num(x) == [nan |-> FALSE, v |-> x]

-----------------------------------------------------------------------------
(* The record and the lookup tables *)

OgnMessageType == {"UNKNOWN", "TRAFFIC_REPORT", "COMMENT", "STATUS", "WEATHER"}

OgnAddressType == <<"UNKNOWN", "ICAO", "FLARM", "OGN_TRACKER">>

OgnSymbol ==
    {"UNKNOWN", "GLIDER", "HELICOPTER", "PARACHUTE", "AIRCRAFT", "JET", "BALLOON",
     "STATIC_OBJECT", "UAV", "WEATHERSTATION"}

OgnAircraftType ==
    {"unknown", "Aircraft", "Airship", "Balloon", "Copter", "Drone", "Glider",
     "HangGlider", "Jet", "Paraglider", "Skydiver", "StaticObstacle", "TowPlane"}

\* A default-constructed OgnMessage.
OgnMessage ==
    [sentence        |-> <<>>,
     type            |-> "UNKNOWN",
     sourceId        |-> EmptyView,
     timestamp       |-> EmptyView,
     latitude        |-> NaN,
     longitude       |-> NaN,
     altitude        |-> NaN,
     symbol          |-> "UNKNOWN",
     course          |-> 0,
     speed           |-> 0,
     aircraftID      |-> EmptyView,
     verticalSpeed   |-> 0,
     rotationRate    |-> EmptyView,
     signalStrength  |-> EmptyView,
     errorCount      |-> EmptyView,
     frequencyOffset |-> EmptyView,
     squawk          |-> EmptyView,
     flightlevel     |-> EmptyView,
     flightnumber    |-> EmptyView,
     gpsInfo         |-> EmptyView,
     aircraftType    |-> "unknown",
     addressType     |-> "UNKNOWN",
     address         |-> EmptyView,
     stealthMode     |-> FALSE,
     noTrackingFlag  |-> FALSE,
     wind_direction  |-> U32(0, 0),
     wind_speed      |-> U32(0, 0),
     wind_gust_speed |-> U32(0, 0),
     temperature     |-> U32(0, 0),
     humidity        |-> U32(0, 0),
     pressure        |-> U32(0, 0)]

\* reset() without the assignments to the identity fields.
reset_KeepsIdentity(m) ==
    [OgnMessage EXCEPT
        !.aircraftType = m.aircraftType,
        !.addressType = m.addressType,
        !.address = m.address]

\* OgnMessage::reset()
reset(m) ==
    [m EXCEPT
        !.sentence = <<>>,
        !.type = "UNKNOWN",
        !.sourceId = EmptyView,
        !.timestamp = EmptyView,
        !.latitude = NaN,
        !.longitude = NaN,
        !.altitude = NaN,
        !.symbol = "UNKNOWN",
        !.course = 0,
        !.speed = 0,
        !.aircraftID = EmptyView,
        !.verticalSpeed = 0,
        !.rotationRate = EmptyView,
        !.signalStrength = EmptyView,
        !.errorCount = EmptyView,
        !.frequencyOffset = EmptyView,
        !.squawk = EmptyView,
        !.flightlevel = EmptyView,
        !.flightnumber = EmptyView,
        !.gpsInfo = EmptyView,
        !.aircraftType = "unknown",
        !.addressType = "UNKNOWN",
        !.address = EmptyView,
        !.stealthMode = FALSE,
        !.noTrackingFlag = FALSE,
        !.wind_direction = U32(0, 0),
        !.wind_speed = U32(0, 0),
        !.wind_gust_speed = U32(0, 0),
        !.temperature = U32(0, 0),
        !.humidity = U32(0, 0),
        !.pressure = U32(0, 0)]

\* The symbol table: two-character key -> symbol.
AprsSymbolMap ==
    (<<"/", "z">>  :> "UNKNOWN") @@
    (<<"/", "'">>  :> "GLIDER") @@
    (<<"/", "X">>  :> "HELICOPTER") @@
    (<<"/", "g">>  :> "PARACHUTE") @@
    (<<"\\", "^">> :> "AIRCRAFT") @@
    (<<"/", "^">>  :> "JET") @@
    (<<"/", "O">>  :> "BALLOON") @@
    (<<"\\", "n">> :> "STATIC_OBJECT") @@
    (<<"/", "_">>  :> "WEATHERSTATION")

\* AircraftCategoryMap with the entries of Copter and Skydiver exchanged and
\* 9 mapped to Aircraft.
AircraftCategoryMap_Exchanged ==
    <<"unknown", "Glider", "TowPlane", "Skydiver", "Copter", "Aircraft", "HangGlider",
      "Paraglider", "Aircraft", "Aircraft", "unknown", "Balloon", "Airship", "Drone",
      "unknown", "StaticObstacle">>

\* The category table of the identity code, entry k at index k + 1.
AircraftCategoryMap ==
    <<"unknown", "Glider", "TowPlane", "Copter", "Skydiver", "Aircraft", "HangGlider",
      "Paraglider", "Aircraft", "Jet", "unknown", "Balloon", "Airship", "Drone",
      "unknown", "StaticObstacle">>

-----------------------------------------------------------------------------
(* Coordinate decoding *)

\* '\0', the value of an enhancement character that was not found.
NulChar == "<NUL>"

\* r (a from_chars double) in units of 1/unitsPerOne.
InUnits(r, unitsPerOne) == (r.mant * unitsPerOne) \div Pow10(r.frac)

\* The refinement of an enhancement character, in 1e-4 minutes.
Enhancement(c) == IF c # NulChar /\ IsDigit(c) THEN DigitVal(c) * 10 ELSE 0

\* The size check that guards the reads of a coordinate text.
TooShort(nmea, size) == nmea.len < size

\* Degrees from the first degreeDigits characters, minutes from the rest; the
\* common body of decodeLatitude (2, 7, 'S') and decodeLongitude (3, 8, 'W').
decodeCoordinate(s, nmea, direction, enhancementChar, degreeDigits, size, negative) ==
    LET degrees == FromCharsDouble(s, Substr(nmea, 0, degreeDigits))
        minutes == FromCharsDouble(s, SubstrFrom(nmea, degreeDigits))
        value   == InUnits(degrees, 600000) + InUnits(minutes, 10000)
                     + Enhancement(enhancementChar)
    IN  IF TooShort(nmea, size) THEN NaN
        ELSE IF degrees.ec # "ok" THEN NaN
        ELSE IF minutes.ec # "ok" THEN NaN
        ELSE IF direction = negative THEN Num(0 - value)
        ELSE Num(value)

\* decodeLatitude negating on 'N' instead of 'S'.
decodeLatitude_NegatesNorth(s, nmeaLatitude, latitudeDirection, latEnhancement) ==
    decodeCoordinate(s, nmeaLatitude, latitudeDirection, latEnhancement, 2, 7, "N")

decodeLatitude(s, nmeaLatitude, latitudeDirection, latEnhancement) ==
    decodeCoordinate(s, nmeaLatitude, latitudeDirection, latEnhancement, 2, 7, "S")

decodeLongitude(s, nmeaLongitude, longitudeDirection, lonEnhancement) ==
    decodeCoordinate(s, nmeaLongitude, longitudeDirection, lonEnhancement, 3, 8, "W")

-----------------------------------------------------------------------------
(* parseTrafficReport: the APRS part *)

\* AprsPartOf without the split at the first blank.
AprsPartOf_NoSplit(s, body) == body

\* body up to its first blank, or all of body.
AprsPartOf(s, body) ==
    LET blankIndex == Find(s, body, <<" ">>, 0)
    IN  IF blankIndex = npos THEN body ELSE Substr(body, 0, blankIndex)

\* body after its first blank, or a default (empty) view.
OgnPartOf(s, body) ==
    LET blankIndex == Find(s, body, <<" ">>, 0)
    IN  IF blankIndex = npos THEN EmptyView ELSE SubstrFrom(body, blankIndex + 1)

\* AprsPartAccepted with a minimum of 26 instead of 30 characters.
AprsPartAccepted_TooShort(s, aprsPart) ==
    starts_with(s, aprsPart, <<"/">>) /\ aprsPart.len >= 26

\* The structural check of the APRS part.
AprsPartAccepted(s, aprsPart) ==
    starts_with(s, aprsPart, <<"/">>) /\ aprsPart.len >= 30

\* PrecisionFound for a body with one character less after the marker.
PrecisionFound_OneShort(s, body) ==
    LET precisionIndex == Find(s, body, <<"!", "W">>, 0)
    IN  precisionIndex # npos /\ body.len > precisionIndex + 3

\* The precision enhancement marker "!W" is used.
PrecisionFound(s, body) ==
    LET precisionIndex == Find(s, body, <<"!", "W">>, 0)
    IN  precisionIndex # npos /\ body.len > precisionIndex + 4

decodeCoordinates(m, body, aprsPart) ==
    LET s              == m.sentence
        latString      == Substr(aprsPart, 8, 7)
        latDirection   == At(s, aprsPart, 15)
        lonString      == Substr(aprsPart, 17, 8)
        lonDirection   == At(s, aprsPart, 25)
        precisionIndex == Find(s, body, <<"!", "W">>, 0)
        latEnhancement == IF PrecisionFound(s, body)
                          THEN At(s, body, precisionIndex + 2) ELSE NulChar
        lonEnhancement == IF PrecisionFound(s, body)
                          THEN At(s, body, precisionIndex + 3) ELSE NulChar
    IN  [m EXCEPT
            !.latitude  = decodeLatitude(s, latString, latDirection, latEnhancement),
            !.longitude = decodeLongitude(s, lonString, lonDirection, lonEnhancement)]

\* decodeSymbol with the key read from offsets 16 and 25.
decodeSymbol_WrongOffset(m, aprsPart) ==
    LET symbolKey == <<At(m.sentence, aprsPart, 16), At(m.sentence, aprsPart, 25)>>
    IN  IF symbolKey \in DOMAIN AprsSymbolMap
        THEN [m EXCEPT !.symbol = AprsSymbolMap[symbolKey]]
        ELSE [m EXCEPT !.symbol = "UNKNOWN"]

decodeSymbol(m, aprsPart) ==
    LET symbolKey == <<At(m.sentence, aprsPart, 16), At(m.sentence, aprsPart, 26)>>
    IN  IF symbolKey \in DOMAIN AprsSymbolMap
        THEN [m EXCEPT !.symbol = AprsSymbolMap[symbolKey]]
        ELSE [m EXCEPT !.symbol = "UNKNOWN"]

\* One weather field: the uint32_t read from at most width characters after
\* the first occurrence of marker at or after the symbol code (offset 26).
WeatherField(s, aprsPart, marker, width) ==
    LET markerIndex == Find(s, aprsPart, <<marker>>, 26)
    IN  IF markerIndex = npos
        THEN FromCharsResult("marker not found", U32(0, 0))
        ELSE FromCharsU32(s, Substr(aprsPart, markerIndex + 1, width), 10)

decodeWeather(m, aprsPart) ==
    LET s       == m.sentence
        windDir == FromCharsU32(s, Substr(aprsPart, 26 + 1, 3), 10)
        windSpd == WeatherField(s, aprsPart, "/", 3)
        gust    == WeatherField(s, aprsPart, "g", 3)
        temp    == WeatherField(s, aprsPart, "t", 3)
        hum     == WeatherField(s, aprsPart, "h", 2)
        bIndex  == Find(s, aprsPart, <<"b">>, 26)
        presAll == SubstrFrom(aprsPart, bIndex + 1)
        endPos  == Find(s, presAll, <<" ">>, 0)
        presStr == IF endPos # npos THEN Substr(presAll, 0, endPos) ELSE presAll
        pres    == IF bIndex = npos
                   THEN FromCharsResult("marker not found", U32(0, 0))
                   ELSE FromCharsU32(s, presStr, 10)
    IN  [m EXCEPT
            !.type            = "WEATHER",
            !.wind_direction  = IF windDir.ec = "ok" THEN windDir.value ELSE @,
            !.wind_speed      = IF windSpd.ec = "ok" THEN windSpd.value ELSE @,
            !.wind_gust_speed = IF gust.ec = "ok" THEN gust.value ELSE @,
            !.temperature     = IF temp.ec = "ok" THEN temp.value ELSE @,
            !.humidity        = IF hum.ec = "ok" THEN hum.value ELSE @,
            !.pressure        = IF pres.ec = "ok" THEN pres.value ELSE @]

\* The size check that guards the read of aprsPart[30].
\* CourseSpeedLongEnough with 33 instead of 34 characters.
CourseSpeedLongEnough_OneShort(aprsPart) == aprsPart.len >= 33

CourseSpeedLongEnough(aprsPart) == aprsPart.len >= 34

\* The guard of the course and speed block.
CourseSpeedPresent(s, aprsPart) ==
    CourseSpeedLongEnough(aprsPart) /\ At(s, aprsPart, 30) = "/"

\* decodeCourseSpeed storing course and speed only when both were read.
decodeCourseSpeed_BothOrNone(m, aprsPart) ==
    LET s            == m.sentence
        courseResult == FromCharsInt(s, Substr(aprsPart, 27, 3))
        speedResult  == FromCharsInt(s, Substr(aprsPart, 31, 3))
    IN  IF CourseSpeedPresent(s, aprsPart) /\ courseResult.ec = "ok" /\ speedResult.ec = "ok"
        THEN [m EXCEPT !.course = courseResult.value, !.speed = speedResult.value]
        ELSE m

decodeCourseSpeed(m, aprsPart) ==
    LET s            == m.sentence
        courseResult == FromCharsInt(s, Substr(aprsPart, 27, 3))
        speedResult  == FromCharsInt(s, Substr(aprsPart, 31, 3))
    IN  IF CourseSpeedPresent(s, aprsPart)
        THEN [m EXCEPT
                !.course = IF courseResult.ec = "ok" THEN courseResult.value ELSE @,
                !.speed  = IF speedResult.ec = "ok" THEN speedResult.value ELSE @]
        ELSE m

\* decodeAltitude reading 5 instead of 6 characters.
decodeAltitude_FiveCharacters(m, aprsPart) ==
    LET s             == m.sentence
        altitudeIndex == Find(s, aprsPart, <<"/", "A", "=">>, 0)
        result        == FromCharsInt(s, Substr(aprsPart, altitudeIndex + 3, 5))
    IN  IF altitudeIndex # npos /\ result.ec = "ok"
        THEN [m EXCEPT !.altitude = Num(result.value * 762)]
        ELSE m

decodeAltitude(m, aprsPart) ==
    LET s             == m.sentence
        altitudeIndex == Find(s, aprsPart, <<"/", "A", "=">>, 0)
        result        == FromCharsInt(s, Substr(aprsPart, altitudeIndex + 3, 6))
    IN  IF altitudeIndex # npos /\ result.ec = "ok"
        THEN [m EXCEPT !.altitude = Num(result.value * 762)]
        ELSE m

\* parseTrafficReport up to the loop over ognPart.
parseAprsPart(m, header, body) ==
    LET s        == m.sentence
        index    == Find(s, header, <<">">>, 0)
        aprsPart == AprsPartOf(s, body)
        m1       == [m EXCEPT !.type = "TRAFFIC_REPORT",
                              !.sourceId = Substr(header, 0, index)]
        m2       == [m1 EXCEPT !.timestamp = Substr(aprsPart, 1, 6)]
        m3       == decodeSymbol(decodeCoordinates(m2, body, aprsPart), aprsPart)
    IN  IF At(s, body, 0) # "/" THEN [m EXCEPT !.type = "UNKNOWN"]
        ELSE IF index = npos THEN [m EXCEPT !.type = "UNKNOWN"]
        ELSE IF ~AprsPartAccepted(s, aprsPart) THEN [m1 EXCEPT !.type = "UNKNOWN"]
        ELSE IF m3.symbol = "WEATHERSTATION" THEN decodeWeather(m3, aprsPart)
        ELSE decodeAltitude(decodeCourseSpeed(m3, aprsPart), aprsPart)

\* parseTrafficReport returns before the loop over ognPart.
ReturnsEarly(s, header, body) ==
    \/ At(s, body, 0) # "/"
    \/ Find(s, header, <<">">>, 0) = npos
    \/ ~AprsPartAccepted(s, AprsPartOf(s, body))

-----------------------------------------------------------------------------
(* parseTrafficReport: the loop over ognPart and the identity code *)

\* The size check that guards the read of item[2].
FlightNumberLongEnough(item) == item.len > 2

\* The flight number rule.
FlightNumberItem(s, item) ==
    starts_with(s, item, <<"A">>) /\ FlightNumberLongEnough(item) /\ At(s, item, 2) = ":"

\* The text the vertical speed is read from: the item before its first 'f',
\* without one leading '+'.
VspeedStr(s, item) ==
    LET fpmIndex == Find(s, item, <<"f">>, 0)
        before   == Substr(item, 0, fpmIndex)
    IN  IF before.len > 0 /\ At(s, before, 0) = "+" THEN SubstrFrom(before, 1) ELSE before

\* The last rules of the chain over one item: FL, A?:, Sq, gps:.
parseOgnItemPrefixed(m, item) ==
    LET s        == m.sentence
        colonPos == Find(s, item, <<":">>, 0)
    IN  IF starts_with(s, item, <<"F", "L">>)
            THEN [m EXCEPT !.flightlevel = item]
        ELSE IF FlightNumberItem(s, item)
            THEN IF colonPos # npos
                 THEN [m EXCEPT !.flightnumber = SubstrFrom(item, colonPos + 1)] ELSE m
        ELSE IF starts_with(s, item, <<"S", "q">>)
            THEN [m EXCEPT !.squawk = SubstrFrom(item, 2)]
        ELSE IF starts_with(s, item, <<"g", "p", "s", ":">>)
            THEN [m EXCEPT !.gpsInfo = SubstrFrom(item, 4)]
        ELSE m

\* parseOgnItemSuffixed without the suffix rules.
parseOgnItemSuffixed_NoSuffixRules(m, item) == parseOgnItemPrefixed(m, item)

\* The middle rules of the chain: the suffixes fpm, rot, dB, e, kHz.
parseOgnItemSuffixed(m, item) ==
    LET s      == m.sentence
        vspeed == FromCharsInt(s, VspeedStr(s, item))
    IN  IF ends_with(s, item, <<"f", "p", "m">>)
            THEN IF Find(s, item, <<"f">>, 0) # npos /\ vspeed.ec = "ok"
                 THEN [m EXCEPT !.verticalSpeed = vspeed.value * 127] ELSE m
        ELSE IF ends_with(s, item, <<"r", "o", "t">>)
            THEN [m EXCEPT !.rotationRate = item]
        ELSE IF ends_with(s, item, <<"d", "B">>)
            THEN [m EXCEPT !.signalStrength = item]
        ELSE IF ends_with(s, item, <<"e">>)
            THEN [m EXCEPT !.errorCount = item]
        ELSE IF ends_with(s, item, <<"k", "H", "z">>)
            THEN [m EXCEPT !.frequencyOffset = item]
        ELSE parseOgnItemPrefixed(m, item)

\* parseOgnItem reading the temperature of the token t as a uint32_t, as the
\* weather block does.
parseOgnItem_UnsignedTemperature(m, item) ==
    LET s    == m.sentence
        temp == FromCharsU32(s, SubstrFrom(item, 1), 10)
        hum  == FromCharsU32(s, SubstrFrom(item, 1), 10)
        pres == FromCharsU32(s, SubstrFrom(item, 1), 10)
    IN  IF starts_with(s, item, <<"i", "d">>)
            THEN [m EXCEPT !.aircraftID = SubstrFrom(item, 2)]
        ELSE IF starts_with(s, item, <<"t">>)
            THEN IF temp.ec = "ok"
                 THEN [m EXCEPT !.temperature = temp.value] ELSE m
        ELSE IF starts_with(s, item, <<"h">>)
            THEN IF hum.ec = "ok" THEN [m EXCEPT !.humidity = hum.value] ELSE m
        ELSE IF starts_with(s, item, <<"b">>)
            THEN IF pres.ec = "ok" THEN [m EXCEPT !.pressure = pres.value] ELSE m
        ELSE parseOgnItemSuffixed(m, item)

\* The body of the loop: the if / else-if chain over one item, from its
\* first rules: id, t, h, b.
parseOgnItem(m, item) ==
    LET s    == m.sentence
        temp == FromCharsInt(s, SubstrFrom(item, 1))
        hum  == FromCharsU32(s, SubstrFrom(item, 1), 10)
        pres == FromCharsU32(s, SubstrFrom(item, 1), 10)
    IN  IF starts_with(s, item, <<"i", "d">>)
            THEN [m EXCEPT !.aircraftID = SubstrFrom(item, 2)]
        ELSE IF starts_with(s, item, <<"t">>)
            THEN IF temp.ec = "ok"
                 THEN [m EXCEPT !.temperature = CastToU32(temp.value)] ELSE m
        ELSE IF starts_with(s, item, <<"h">>)
            THEN IF hum.ec = "ok" THEN [m EXCEPT !.humidity = hum.value] ELSE m
        ELSE IF starts_with(s, item, <<"b">>)
            THEN IF pres.ec = "ok" THEN [m EXCEPT !.pressure = pres.value] ELSE m
        ELSE parseOgnItemSuffixed(m, item)

\* The iterator after the blanks at and after offset from.
SkipBlanks(s, part, from) == from + RunLength(s, part, from, {" "})

\* The offset of the end of the item that begins at offset from.
ItemEnd(s, part, from) ==
    LET blank == Find(s, part, <<" ">>, from)
    IN  IF blank = npos THEN part.len ELSE blank

\* The address is taken only from an identity token of 8 or more characters.
AddressPresent(aircraftID) == aircraftID.len >= 8

\* decodeIdentity taking the address at offset 2 of the sentence instead of
\* offset 2 of the aircraft id.
decodeIdentity_AddressOfSentence(m) ==
    LET s       == m.sentence
        result  == FromCharsU32(s, m.aircraftID, 16)
        hexcode == result.value
        aircraftCategory == (hexcode.hi \div 1024) % 16
        addressTypeValue == (hexcode.hi \div 256) % 4
    IN  IF m.aircraftID.len > 0 /\ result.ec = "ok"
        THEN [m EXCEPT
                !.stealthMode    = (hexcode.hi \div 32768) % 2 = 1,
                !.noTrackingFlag = (hexcode.hi \div 16384) % 2 = 1,
                !.aircraftType   = AircraftCategoryMap[aircraftCategory + 1],
                !.addressType    = OgnAddressType[addressTypeValue + 1],
                !.address        = IF AddressPresent(m.aircraftID)
                                   THEN Substr(WholeView(s), 2, 6) ELSE @]
        ELSE m

\* The identity code: aircraft type, address type, address and the two flags.
decodeIdentity(m) ==
    LET s       == m.sentence
        result  == FromCharsU32(s, m.aircraftID, 16)
        hexcode == result.value
        aircraftCategory == (hexcode.hi \div 1024) % 16
        addressTypeValue == (hexcode.hi \div 256) % 4
    IN  IF m.aircraftID.len > 0 /\ result.ec = "ok"
        THEN [m EXCEPT
                !.stealthMode    = (hexcode.hi \div 32768) % 2 = 1,
                !.noTrackingFlag = (hexcode.hi \div 16384) % 2 = 1,
                !.aircraftType   = AircraftCategoryMap[aircraftCategory + 1],
                !.addressType    = OgnAddressType[addressTypeValue + 1],
                !.address        = IF AddressPresent(m.aircraftID)
                                   THEN Substr(m.aircraftID, 2, 6) ELSE @]
        ELSE m

-----------------------------------------------------------------------------
(* parseAprsisMessage *)

HeaderOf(s) == Substr(WholeView(s), 0, Find(s, WholeView(s), <<":">>, 0))

BodyOf(s) == SubstrFrom(WholeView(s), Find(s, WholeView(s), <<":">>, 0) + 1)

\* HeaderBodyValid without the test of the body.
HeaderBodyValid_BodyUnchecked(header, body) == ~(header.len < 5)

\* HeaderBodyValid with the header checked against 4 instead of 5.
HeaderBodyValid_HeaderOffByOne(header, body) == ~(header.len < 4 \/ body.len < 5)

\* The length test of header and body.
HeaderBodyValid(header, body) == ~(header.len < 5 \/ body.len < 5)

parseCommentMessage(m) == [m EXCEPT !.type = "COMMENT"]

parseStatusMessage(m, header, body) == [m EXCEPT !.type = "STATUS"]

\* The sentence reaches parseTrafficReport.
IsTrafficCall(s) ==
    /\ ~starts_with(s, WholeView(s), <<"#">>)
    /\ Find(s, WholeView(s), <<":">>, 0) # npos
    /\ HeaderBodyValid(HeaderOf(s), BodyOf(s))
    /\ starts_with(s, BodyOf(s), <<"/">>)

\* parseAprsisMessage up to parseTrafficReport's loop over ognPart.
parseUpToLoop(m) ==
    LET s      == m.sentence
        header == HeaderOf(s)
        body   == BodyOf(s)
    IN  IF starts_with(s, WholeView(s), <<"#">>) THEN parseCommentMessage(m)
        ELSE IF Find(s, WholeView(s), <<":">>, 0) = npos THEN [m EXCEPT !.type = "UNKNOWN"]
        ELSE IF ~HeaderBodyValid(header, body) THEN [m EXCEPT !.type = "UNKNOWN"]
        ELSE IF starts_with(s, body, <<"/">>) THEN parseAprsPart(m, header, body)
        ELSE IF starts_with(s, body, <<">">>) THEN parseStatusMessage(m, header, body)
        ELSE [m EXCEPT !.type = "UNKNOWN"]

\* The loop over ognPart is entered.
EntersLoop(s) == IsTrafficCall(s) /\ ~ReturnsEarly(s, HeaderOf(s), BodyOf(s))

\* One iteration of the loop: the record and the iterator after it.
\* loopIteration leaving the loop after the first item.
loopIteration_StopsAfterFirst(m, part, i) ==
    LET s     == m.sentence
        first == SkipBlanks(s, part, i)
        end   == ItemEnd(s, part, first)
        item  == Substr(part, first, end - first)
    IN  IF first = part.len
        THEN [m |-> m, it |-> part.len]
        ELSE [m |-> parseOgnItem(m, item), it |-> part.len]

loopIteration(m, part, i) ==
    LET s     == m.sentence
        first == SkipBlanks(s, part, i)
        end   == ItemEnd(s, part, first)
        item  == Substr(part, first, end - first)
    IN  IF first = part.len
        THEN [m |-> m, it |-> part.len]
        ELSE [m  |-> parseOgnItem(m, item),
              it |-> IF end # part.len THEN end + 1 ELSE part.len]

RECURSIVE ognLoop(_, _, _)
\* The loop over ognPart, from iterator i to the end.
ognLoop(m, part, i) ==
    IF i = part.len THEN m
    ELSE LET next == loopIteration(m, part, i)
         IN  ognLoop(next.m, part, next.it)

\* The whole of parseAprsisMessage, as a function of the record at entry.
parseAprsisMessage(m) ==
    IF EntersLoop(m.sentence)
    THEN decodeIdentity(ognLoop(parseUpToLoop(m), OgnPartOf(m.sentence, BodyOf(m.sentence)), 0))
    ELSE parseUpToLoop(m)

-----------------------------------------------------------------------------
(* The character reads of the decoder, each with the range it must lie in *)

\* view[i]: in range when 0 <= i < size.
IndexRead(v, i) == [kind |-> "index", size |-> v.len, at |-> i]

\* view.substr(p, ...): in range when p <= size (it throws otherwise).
SubstrRead(v, p) == [kind |-> "substr", size |-> v.len, at |-> p]

InRange(r) ==
    IF r.kind = "index" THEN r.at >= 0 /\ r.at < r.size ELSE r.at >= 0 /\ r.at <= r.size

\* from_chars on data() .. data() + degreeDigits, then substr(degreeDigits).
CoordinateReads(nmea, degreeDigits, size) ==
    IF TooShort(nmea, size) THEN {}
    ELSE {IndexRead(nmea, i) : i \in 0..(degreeDigits - 1)} \cup {SubstrRead(nmea, degreeDigits)}

MarkerReads(s, aprsPart, marker) ==
    LET markerIndex == Find(s, aprsPart, <<marker>>, 26)
    IN  IF markerIndex = npos THEN {} ELSE {SubstrRead(aprsPart, markerIndex + 1)}

WeatherReads(s, aprsPart) ==
    {SubstrRead(aprsPart, 26 + 1)}
        \cup MarkerReads(s, aprsPart, "/") \cup MarkerReads(s, aprsPart, "g")
        \cup MarkerReads(s, aprsPart, "t") \cup MarkerReads(s, aprsPart, "h")
        \cup MarkerReads(s, aprsPart, "b")

TrafficReads(s, aprsPart) ==
    LET altitudeIndex == Find(s, aprsPart, <<"/", "A", "=">>, 0)
    IN  (IF CourseSpeedLongEnough(aprsPart) THEN {IndexRead(aprsPart, 30)} ELSE {})
        \cup (IF CourseSpeedPresent(s, aprsPart)
              THEN {SubstrRead(aprsPart, 27), SubstrRead(aprsPart, 31)} ELSE {})
        \cup (IF altitudeIndex # npos THEN {SubstrRead(aprsPart, altitudeIndex + 3)} ELSE {})

\* The reads of parseTrafficReport before the loop over ognPart.
AprsPartReads(m, header, body) ==
    LET s              == m.sentence
        index          == Find(s, header, <<">">>, 0)
        blankIndex     == Find(s, body, <<" ">>, 0)
        aprsPart       == AprsPartOf(s, body)
        precisionIndex == Find(s, body, <<"!", "W">>, 0)
        decoded        == decodeSymbol(m, aprsPart)
    IN  {IndexRead(body, 0)}
        \cup (IF At(s, body, 0) # "/" \/ index = npos THEN {}
              ELSE {SubstrRead(header, 0)}
                \cup (IF blankIndex = npos THEN {}
                      ELSE {SubstrRead(body, 0), SubstrRead(body, blankIndex + 1)})
                \cup (IF ~AprsPartAccepted(s, aprsPart) THEN {}
                      ELSE {SubstrRead(aprsPart, 1), SubstrRead(aprsPart, 8),
                            IndexRead(aprsPart, 15), SubstrRead(aprsPart, 17),
                            IndexRead(aprsPart, 25), IndexRead(aprsPart, 16),
                            IndexRead(aprsPart, 26)}
                        \cup (IF PrecisionFound(s, body)
                              THEN {IndexRead(body, precisionIndex + 2),
                                    IndexRead(body, precisionIndex + 3)}
                              ELSE {})
                        \cup CoordinateReads(Substr(aprsPart, 8, 7), 2, 7)
                        \cup CoordinateReads(Substr(aprsPart, 17, 8), 3, 8)
                        \cup (IF decoded.symbol = "WEATHERSTATION"
                              THEN WeatherReads(s, aprsPart)
                              ELSE TrafficReads(s, aprsPart))))

\* The reads of parseAprsisMessage up to the loop over ognPart.
EntryReads(m) ==
    LET s          == m.sentence
        colonIndex == Find(s, WholeView(s), <<":">>, 0)
    IN  IF starts_with(s, WholeView(s), <<"#">>) \/ colonIndex = npos THEN {}
        ELSE {SubstrRead(WholeView(s), 0), SubstrRead(WholeView(s), colonIndex + 1)}
                \cup (IF IsTrafficCall(s) THEN AprsPartReads(m, HeaderOf(s), BodyOf(s)) ELSE {})

\* The reads of the if / else-if chain over one item.
ItemReads(s, item) ==
    LET fpmIndex == Find(s, item, <<"f">>, 0)
        before   == Substr(item, 0, fpmIndex)
        colonPos == Find(s, item, <<":">>, 0)
        prefixed(p) == starts_with(s, item, p)
        suffixed(p) == ends_with(s, item, p)
    IN  IF prefixed(<<"i", "d">>) THEN {SubstrRead(item, 2)}
        ELSE IF prefixed(<<"t">>) \/ prefixed(<<"h">>) \/ prefixed(<<"b">>)
            THEN {SubstrRead(item, 1)}
        ELSE IF suffixed(<<"f", "p", "m">>)
            THEN {SubstrRead(item, 0)}
                   \cup (IF before.len > 0 THEN {IndexRead(before, 0)} ELSE {})
                   \cup (IF before.len > 0 /\ At(s, before, 0) = "+"
                         THEN {SubstrRead(before, 1)} ELSE {})
        ELSE IF suffixed(<<"r", "o", "t">>) \/ suffixed(<<"d", "B">>) \/ suffixed(<<"e">>)
                  \/ suffixed(<<"k", "H", "z">>) \/ prefixed(<<"F", "L">>)
            THEN {}
        ELSE (IF prefixed(<<"A">>) /\ FlightNumberLongEnough(item)
              THEN {IndexRead(item, 2)} ELSE {})
               \cup (IF FlightNumberItem(s, item) THEN {SubstrRead(item, colonPos + 1)}
                     ELSE IF prefixed(<<"S", "q">>) THEN {SubstrRead(item, 2)}
                     ELSE IF prefixed(<<"g", "p", "s", ":">>) THEN {SubstrRead(item, 4)}
                     ELSE {})

\* The reads of one iteration of the loop.
IterationReads(m, part, i) ==
    LET s     == m.sentence
        first == SkipBlanks(s, part, i)
        end   == ItemEnd(s, part, first)
    IN  {IndexRead(part, k) : k \in i..Min(first, part.len - 1)}
        \cup (IF first = part.len THEN {}
              ELSE ItemReads(s, Substr(part, first, end - first)))

\* The reads of the identity code.
IdentityReads(m) ==
    IF m.aircraftID.len > 0 /\ FromCharsU32(m.sentence, m.aircraftID, 16).ec = "ok"
          /\ AddressPresent(m.aircraftID)
    THEN {SubstrRead(m.aircraftID, 2)}
    ELSE {}

OutOfRange(reads) == \E r \in reads : ~InRange(r)

-----------------------------------------------------------------------------
(* The input lines *)

\* The longest line over ShortAlphabet.
MaxShortLen == 3

\* The most items of CoreItems in a generated ognPart.
MaxItems == 2

RECURSIVE Cat(_)
\* The concatenation of a sequence of texts.
Cat(texts) == IF texts = <<>> THEN <<>> ELSE Head(texts) \o Cat(Tail(texts))

RECURSIVE Join(_)
\* The items of a sequence, each preceded by one blank.
Join(items) == IF items = <<>> THEN <<>> ELSE <<" ">> \o Head(items) \o Join(Tail(items))

Prefixes(text) == {SubSeq(text, 1, n) : n \in 0..Len(text)}

\* The sentences of src/tests/OgnParserTest.cpp.
TrafficLine1 ==
    <<"F", "L", "R", "D", "D", "E", "6", "2", "6", ">", "A", "P", "R", "S", ",", "q", "A", "S",
      ",", "E", "G", "H", "L", ":", "/", "0", "7", "4", "5", "4", "8", "h", "5", "1", "1", "1",
      ".", "3", "2", "N", "/", "0", "0", "1", "0", "2", ".", "0", "4", "W", "'", "0", "8", "6",
      "/", "0", "0", "7", "/", "A", "=", "0", "0", "0", "6", "0", "7", " ", "i", "d", "0", "A",
      "D", "D", "E", "6", "2", "6", " ", "-", "0", "1", "9", "f", "p", "m", " ", "+", "0", ".",
      "0", "r", "o", "t", " ", "5", ".", "5", "d", "B", " ", "3", "e", " ", "-", "4", ".", "3",
      "k", "H", "z">>

TrafficLine2 ==
    <<"I", "C", "A", "4", "D", "2", "1", "C", "2", ">", "O", "G", "A", "D", "S", "B", ",", "q",
      "A", "S", ",", "H", "L", "S", "T", ":", "/", "0", "0", "1", "1", "4", "0", "h", "4", "7",
      "4", "1", ".", "9", "0", "N", "/", "0", "1", "1", "0", "4", ".", "2", "0", "E", "^", "1",
      "2", "4", "/", "4", "6", "0", "/", "A", "=", "0", "3", "4", "8", "6", "8", " ", "!", "W",
      "9", "1", "!", " ", "i", "d", "2", "5", "4", "D", "2", "1", "C", "2", " ", "+", "1", "2",
      "8", "f", "p", "m", " ", "F", "L", "3", "5", "0", ".", "0", "0", " ", "A", "3", ":", "A",
      "X", "Y", "5", "4", "7", "M", " ", "S", "q", "2", "2", "4", "4">>

TrafficLine3 ==
    <<"I", "C", "A", "4", "D", "2", "1", "C", "2", ">", "O", "G", "A", "D", "S", "B", ",", "q",
      "A", "S", ",", "H", "L", "S", "T", ":", "/", "0", "0", "1", "1", "4", "0", "h", "4", "7",
      "4", "1", ".", "9", "0", "N", "/", "0", "1", "1", "0", "4", ".", "2", "0", "E", "^", "/",
      "A", "=", "0", "3", "4", "8", "6", "8", " ", "!", "W", "9", "1", "!", " ", "i", "d", "2",
      "5", "4", "D", "2", "1", "C", "2", " ", "+", "1", "2", "8", "f", "p", "m", " ", "F", "L",
      "3", "5", "0", ".", "0", "0", " ", "A", "3", ":", "A", "X", "Y", "5", "4", "7", "M", " ",
      "S", "q", "2", "2", "4", "4">>

TrafficLine4 ==
    <<"L", "F", "N", "W", ">", "A", "P", "R", "S", ",", "T", "C", "P", "I", "P", "*", ",", "q",
      "A", "C", ",", "G", "L", "I", "D", "E", "R", "N", "5", ":", "/", "1", "8", "3", "8", "0",
      "4", "h", "4", "2", "5", "4", ".", "5", "3", "N", "I", "0", "0", "2", "0", "3", ".", "9",
      "0", "E", "&", "/", "A", "=", "0", "0", "1", "0", "0", "0">>

WeatherLine ==
    <<"F", "N", "T", "0", "8", "0", "7", "5", "C", ">", "O", "G", "N", "F", "N", "T", ",", "q",
      "A", "S", ",", "H", "o", "e", "r", "n", "l", "e", "2", ":", "/", "2", "2", "2", "2", "4",
      "5", "h", "4", "8", "0", "3", ".", "9", "2", "N", "/", "0", "0", "8", "0", "0", ".", "9",
      "3", "E", "_", "2", "9", "2", "/", "0", "0", "5", "g", "0", "1", "0", "t", "0", "3", "0",
      "h", "0", "1", "b", "6", "5", "5", "2", "6", " ", "5", ".", "2", "d", "B">>

InvalidLine ==
    <<"I", "N", "V", "A", "L", "I", "D", " ", "M", "E", "S", "S", "A", "G", "E", " ", "F", "O",
      "R", "M", "A", "T">>

CommentLine ==
    <<"#", " ", "T", "h", "i", "s", " ", "i", "s", " ", "a", " ", "c", "o", "m", "m", "e", "n",
      "t">>

StatusLine ==
    <<"F", "L", "R", "D", "D", "E", "6", "2", "6", ">", "A", "P", "R", "S", ",", "q", "A", "S",
      ",", "E", "G", "H", "L", ":", ">", "R", "e", "c", "e", "i", "v", "e", "r", " ", "S", "t",
      "a", "t", "u", "s", " ", "M", "e", "s", "s", "a", "g", "e">>

TestLines ==
    {TrafficLine1, TrafficLine2, TrafficLine3, TrafficLine4, WeatherLine, InvalidLine,
     CommentLine, StatusLine}

\* Every truncation of a traffic, an enhanced traffic and a weather sentence.
PrefixLines == Prefixes(TrafficLine1) \cup Prefixes(TrafficLine3) \cup Prefixes(WeatherLine)

ShortAlphabet == {"#", ":", "/", ">", " ", "A"}

\* Every line of at most MaxShortLen characters over ShortAlphabet.
ShortLines == UNION {[1..n -> ShortAlphabet] : n \in 0..MaxShortLen}

\* Headers: with and without '>', of 4 and of 5 and more characters.
HeaderTexts ==
    {<<"F", "L", "R", "D", "D", "E", "6", "2", "6", ">", "A", "P", "R", "S">>,
     <<"F", "L", "R", ">", "A">>,
     <<"F", "L", "R", ">">>,
     <<"F", "L", "R", "A", "B">>,
     <<"F", "L", "R", "A">>,
     <<">", "A", "P", "R", "S">>,
     <<"#", "L", "R", ">", "A", "P", "R", "S">>,
     <<"F", "L", ">", ">", "A">>}

\* Bodies: short and long, of every leading character the decoder tells apart.
BodyTexts ==
    {<<"/", "a", "b", "c">>,
     <<"/", "a", "b", "c", "d">>,
     <<">", "a", "b", "c">>,
     <<">", "a", "b", "c", "d">>,
     <<"x", "a", "b", "c", "d">>,
     <<" ", "/", "a", "b", "c", "d">>,
     <<>>,
     <<":", "/", "a", "b", "c", "d">>,
     <<"/", "0", "7", "4", "5", "4", "8", "h", "5", "1", "1", "1", ".", "3", "2", "N", "/",
       "0", "0", "1", "0", "2", ".", "0", "4", "W", "'", "0", "8">>,
     <<"/", "0", "7", "4", "5", "4", "8", "h", "5", "1", "1", "1", ".", "3", "2", "N", "/",
       "0", "0", "1", "0", "2", ".", "0", "4", "W", "'", "0", "8", "6">>,
     <<"/", "0", "7", "4", "5", "4", "8", "h", "5", "1", "1", "1", ".", "3", "2", "N", "/",
       "0", "0", "1", "0", "2", ".", "0", "4", "W", "'", " ", "0", "8", "6", "/", "0", "0",
       "7", "/", "A", "=", "0", "0", "0", "6", "0", "7">>,
     <<"/", "0", "7", "4", "5", "4", "8", "h", "5", "1", "1", "1", ".", "3", "2", "N", "/",
       "0", "0", "1", "0", "2", ".", "0", "4", "W", "_", "2", "9">>,
     <<"/", "0", "7", "4", "5", "4", "8", "h", "5", "1", "1", "1", ".", "3", "2", "N", "/",
       "0", "0", "1", "0", "2", ".", "0", "4", "W", "'", "0", "8", "6", "/", "0", "0", "7",
       "/", "A", "=", "0", "0", "0", "6", "0", "7", " ", "i", "d", "0", "A", "D", "D", "E",
       "6", "2", "6">>,
     <<">", "7", "4", "5", "4", "8", "h", "5", "1", "1", "1", ".", "3", "2", "N", "/", "0",
       "0", "1", "0", "2", ".", "0", "4", "W", "'", "0", "8", "6", "/", "0", "0", "7", "/",
       "A", "=", "0", "0", "0", "6", "0", "7", " ", "i", "d", "0", "A", "D", "D", "E", "6",
       "2", "6">>}

SplitLines == {Cat(<<h, <<":">>, b>>) : h \in HeaderTexts, b \in BodyTexts}

DefaultHeader ==
    <<"F", "L", "R", "D", "D", "E", "6", "2", "6", ">", "A", "P", "R", "S">>

DefaultTime ==
    <<"0", "7", "4", "5", "4", "8">>

\* Latitude texts: well-formed, and with a character that ends or prevents a number.
LatTexts ==
    {<<"5", "1", "1", "1", ".", "3", "2">>,
     <<"4", "7", "4", "1", ".", "9", "0">>,
     <<"0", "0", "0", "0", ".", "0", "0">>,
     <<"8", "9", "5", "9", ".", "9", "9">>,
     <<"5", "1", "X", "1", ".", "3", "2">>,
     <<"5", "1", "1", "1", "X", "3", "2">>,
     <<"X", "1", "1", "1", ".", "3", "2">>,
     <<"5", ".", "1", "1", ".", "3", "2">>,
     <<"-", "1", "1", "1", ".", "3", "2">>,
     <<"5", "1", "-", "1", ".", "3", "2">>}

\* Longitude texts, likewise.
LonTexts ==
    {<<"0", "0", "1", "0", "2", ".", "0", "4">>,
     <<"0", "1", "1", "0", "4", ".", "2", "0">>,
     <<"1", "7", "9", "5", "9", ".", "9", "9">>,
     <<"0", "0", "1", "X", "2", ".", "0", "4">>,
     <<"X", "0", "1", "0", "2", ".", "0", "4">>,
     <<"0", ".", "1", "0", "2", ".", "0", "4">>,
     <<"-", "0", "1", "0", "2", ".", "0", "4">>,
     <<"0", "0", "1", "-", "2", ".", "0", "4">>}

LatDirections == {"N", "S", "s"}

LonDirections == {"E", "W"}

\* What follows the APRS part in the coordinate lines: nothing, or a text with "!W".
EnhancementTexts ==
    {<<>>,
     <<" ", "!", "W", "9", "1", "!">>,
     <<" ", "!", "W", "0", "x", "!">>,
     <<" ", "!", "W", "5", "x", "!">>,
     <<" ", "!", "W", "x", "7", "!">>,
     <<" ", "i", "d", "0", "A", "D", "D", "E", "6", "2", "6", " ", "!", "W", "3", "7">>,
     <<" ", "!", "W", "3">>,
     <<" ", "!", "W">>}

\* An APRS part from its fields.
AprsText(time, lat, latDir, table, lon, lonDir, code, tail) ==
    Cat(<<<<"/">>, time, <<"h">>, lat, <<latDir>>, <<table>>, lon, <<lonDir>>, <<code>>, tail>>)

DefaultTail ==
    <<"0", "8", "6", "/", "0", "0", "7", "/", "A", "=", "0", "0", "0", "6", "0", "7">>

DefaultLat ==
    <<"5", "1", "1", "1", ".", "3", "2">>

DefaultLon ==
    <<"0", "0", "1", "0", "2", ".", "0", "4">>

\* Every latitude text with every longitude text, plain and enhanced.
CoordinateLines ==
    {Cat(<<DefaultHeader, <<":">>,
           AprsText(DefaultTime, lat, latDir, "/", lon, lonDir, "'", DefaultTail), e>>) :
        lat \in LatTexts, latDir \in LatDirections, lon \in LonTexts,
        lonDir \in LonDirections, e \in {<<>>, <<" ", "!", "W", "9", "1", "!">>}}

\* Every text with "!W" after a decodable and after an undecodable latitude.
EnhancementLines ==
    {Cat(<<DefaultHeader, <<":">>,
           AprsText(DefaultTime, lat, latDir, "/", DefaultLon, lonDir, "'", DefaultTail), e>>) :
        lat \in {DefaultLat, <<"X", "1", "1", "1", ".", "3", "2">>},
        latDir \in LatDirections, lonDir \in LonDirections, e \in EnhancementTexts}

SymbolTables == {"/", "\\", "I"}

SymbolCodes == {"z", "'", "X", "g", "^", "O", "n", "_", "&"}

\* What follows the symbol code in the APRS part.
TailTexts ==
    {<<"0", "8", "6", "/", "0", "0", "7", "/", "A", "=", "0", "0", "0", "6", "0", "7">>,
     <<"/", "A", "=", "0", "3", "4", "8", "6", "8">>,
     <<"2", "9", "2", "/", "0", "0", "5", "g", "0", "1", "0", "t", "0", "3", "0", "h", "0",
       "1", "b", "6", "5", "5", "2", "6">>,
     <<"0", "8", "6">>,
     <<"0", "8", "6", "/">>,
     <<"0", "8", "6", "/", "0", "0">>,
     <<"0", "8", "6", "/", "0", "0", "7">>,
     <<"0", "8", "x", "/", "0", "0", "7", "/", "A", "=", "0", "0", "0", "6", "0", "7">>,
     <<"0", "8", "6", "/", "0", "x", "7", "/", "A", "=", "-", "0", "0", "1", "0", "0">>,
     <<"x", "x", "x", "/", "y", "y", "y", "/", "A", "=", "z", "z", "z">>,
     <<"0", "8", "6", "x", "0", "0", "7", "/", "A", "=", "1", "2", "3", "4", "5", "6", "7">>,
     <<"-", "1", "2", "/", "-", "0", "7", "/", "A", "=", "1", "2">>,
     <<"/", "A", "=">>,
     <<"2", "9", "2", "/", "x", "x", "5", "g", "t", "-", "3", "0", "h", "1", "b", "6", "5",
       "5", "2", "6", "5", "9", "9", "9", "9">>,
     <<"2", "9", "x", "g", "0", "1", "0", "/", "0", "0", "5", "b", "-", "1", "t", "0", "3",
       "0", "h">>,
     <<"0", "8", "6", "/", "0", "0", "7", "/", "A", "=", "/", "A", "=", "0", "0", "0", "6",
       "0", "7">>,
     <<"!", "W", "/", "A", "=", "0", "0", "0", "6">>,
     <<"!", "W", "5", "5", "!", "/", "A", "=", "0", "0", "0", "6", "0", "7">>}

SymbolLines ==
    {Cat(<<DefaultHeader, <<":">>,
           AprsText(DefaultTime, DefaultLat, "N", table, DefaultLon, "W", code, tail)>>) :
        table \in SymbolTables, code \in SymbolCodes, tail \in TailTexts}

\* Items of ognPart, for each rule of the decoder and for none.
ItemTexts ==
    {<<"i", "d", "0", "A", "D", "D", "E", "6", "2", "6">>,
     <<"i", "d", "2", "5", "4", "D", "2", "1", "C", "2">>,
     <<"i", "d", "F", "F", "F", "F", "F", "F", "F", "F">>,
     <<"i", "d">>,
     <<"i", "d", "0", "a", "d", "d", "e", "6", "2", "6">>,
     <<"i", "d", "0", "A", "D", "D", "E", "6">>,
     <<"i", "d", "0", "A", "D", "D", "E", "6", "Z", "Z">>,
     <<"i", "d", "Z", "Z">>,
     <<"i", "d", "1", "0", "0", "0", "0", "0", "0", "0", "0">>,
     <<"i", "d", "3", "F", "1", "2", "3", "4", "5", "6", "7", "8", "9">>,
     <<"i", "d", "8", "B", "0", "0", "0", "0", "0", "1">>,
     <<"i", "d", "4", "C", "1", "2", "3", "4", "5", "x">>,
     <<"t", "2", "5">>,
     <<"t", "-", "5">>,
     <<"t">>,
     <<"t", "x">>,
     <<"t", "9", "9", "9", "9", "9", "9", "9", "9", "9", "9", "9">>,
     <<"t", "r", "e", "e">>,
     <<"h", "5", "5">>,
     <<"h", "-", "5">>,
     <<"h", "4", "2", "9", "4", "9", "6", "7", "2", "9", "5">>,
     <<"h", "4", "2", "9", "4", "9", "6", "7", "2", "9", "6">>,
     <<"b", "1", "0", "1", "3", "2">>,
     <<"b">>,
     <<"b", "5", "d", "B">>,
     <<"-", "0", "1", "9", "f", "p", "m">>,
     <<"+", "1", "2", "8", "f", "p", "m">>,
     <<"1", "2", "8", "f", "p", "m">>,
     <<"+", "-", "5", "f", "p", "m">>,
     <<"+", "+", "5", "f", "p", "m">>,
     <<"f", "p", "m">>,
     <<"f", "1", "2", "f", "p", "m">>,
     <<"1", "2", "x", "3", "f", "p", "m">>,
     <<"9", "9", "9", "9", "9", "9", "9", "9", "9", "9", "9", "f", "p", "m">>,
     <<"x", "f", "p", "m">>,
     <<"+", "0", ".", "0", "r", "o", "t">>,
     <<"r", "o", "t">>,
     <<"5", ".", "5", "d", "B">>,
     <<"d", "B">>,
     <<"3", "e">>,
     <<"e">>,
     <<"-", "4", ".", "3", "k", "H", "z">>,
     <<"k", "H", "z">>,
     <<"F", "L", "3", "5", "0", ".", "0", "0">>,
     <<"F", "L">>,
     <<"F", "L", "e">>,
     <<"A", "3", ":", "A", "X", "Y", "5", "4", "7", "M">>,
     <<"A", "3", ":">>,
     <<"A", ":", "x">>,
     <<"A", "3">>,
     <<"A", "B">>,
     <<"A", "3", "x", ":", "y">>,
     <<"A", ":", ":", "x">>,
     <<"S", "q", "2", "2", "4", "4">>,
     <<"S", "q">>,
     <<"g", "p", "s", ":", "2", "x", "3">>,
     <<"g", "p", "s", ":">>,
     <<"g", "p", "s">>,
     <<"x">>,
     <<"5", ".", "5", "d", "b">>,
     <<"!", "W", "9", "1", "!">>,
     <<"h", "r", "o", "t">>,
     <<"S", "q", "e">>,
     <<"g", "p", "s", ":", "e">>}

\* The items that are combined into ognParts of several items.
CoreItems ==
    <<<<"i", "d", "0", "A", "D", "D", "E", "6", "2", "6">>,
      <<"i", "d", "C", "7", "1", "2", "3", "4", "5", "6">>,
      <<"t", "-", "5">>,
      <<"h", "5", "5">>,
      <<"+", "1", "2", "8", "f", "p", "m">>,
      <<"5", ".", "5", "d", "B">>,
      <<"3", "e">>,
      <<"F", "L", "3", "5", "0", ".", "0", "0">>,
      <<"A", "3", ":", "A", "X", "Y", "5", "4", "7", "M">>,
      <<"x">>>>

ItemSequences == UNION {[1..n -> 1..Len(CoreItems)] : n \in 0..MaxItems}

\* OgnParts with leading, repeated and trailing blanks.
BlankTexts ==
    {<<" ">>,
     <<" ", " ">>,
     <<" ", "x", " ", " ">>,
     <<" ", " ", "i", "d", "0", "A", "D", "D", "E", "6", "2", "6", " ", " ", "5", ".", "5",
       "d", "B", " ">>,
     <<" ", " ", "3", "e", " ", " ", " ", "3", "e", " ", "x", "6", "e", " ", " ">>,
     <<" ", "5", ".", "5", "d", "B", " ", " ", " ">>}

\* The APRS part the item lines share, of a traffic report and of a weather report.
ItemLineStarts ==
    {Cat(<<DefaultHeader, <<":">>,
           AprsText(DefaultTime, DefaultLat, "N", "/", DefaultLon, "W", "'", DefaultTail)>>),
     Cat(<<DefaultHeader, <<":">>,
           AprsText(DefaultTime, DefaultLat, "N", "/", DefaultLon, "W", "_",
                    <<"2", "9", "2", "/", "0", "0", "5", "g", "0", "1", "0", "t", "0", "3",
                      "0", "h", "0", "1", "b", "6", "5", "5", "2", "6">>)>>)}

ItemLines ==
    {start \o <<" ">> \o item : start \in ItemLineStarts, item \in ItemTexts}
        \cup {start \o Join([k \in DOMAIN q |-> CoreItems[q[k]]]) :
                 start \in ItemLineStarts, q \in ItemSequences}
        \cup {start \o b : start \in ItemLineStarts, b \in BlankTexts}

\* OgnParts in which a precision marker is the first or the last item.
MarkerItemLines ==
    {start \o Join(<<a, b>>) :
        start \in ItemLineStarts,
        a \in {<<"!", "W", "3", "7">>, <<"x">>}, b \in {<<"!", "W", "3", "7">>, <<"x">>}}

\* The sub-fields of a well-formed traffic report, by name.
TrafficParts ==
    [lat |-> DefaultLat, lon |-> DefaultLon, course |-> <<"0", "8", "6">>, speed |-> <<"0", "0", "7">>,
     alt |-> <<"/", "A", "=", "0", "0", "0", "6", "0", "7">>, id |-> <<" ", "i", "d", "0", "A", "D", "D", "E", "6", "2", "6">>, fpm |-> <<" ", "-", "0", "1", "9", "f", "p", "m">>,
     rot |-> <<" ", "+", "0", ".", "0", "r", "o", "t">>, dB |-> <<" ", "5", ".", "5", "d", "B">>]

TrafficSentence(p) ==
    Cat(<<DefaultHeader, <<":">>,
          AprsText(DefaultTime, p.lat, "N", "/", p.lon, "W", "'",
                   Cat(<<p.course, <<"/">>, p.speed, p.alt>>)),
          p.id, p.fpm, p.rot, p.dB>>)

\* The sub-fields of a well-formed weather report, by name.
WeatherParts ==
    [lat |-> DefaultLat, lon |-> DefaultLon, wdir |-> <<"2", "9", "2">>, wspd |-> <<"/", "0", "0", "5">>,
     gust |-> <<"g", "0", "1", "0">>, temp |-> <<"t", "0", "3", "0">>, hum |-> <<"h", "0", "1">>,
     pres |-> <<"b", "6", "5", "5", "2", "6">>, dB |-> <<" ", "5", ".", "2", "d", "B">>]

WeatherSentence(p) ==
    Cat(<<DefaultHeader, <<":">>,
          AprsText(DefaultTime, p.lat, "N", "/", p.lon, "E", "_",
                   Cat(<<p.wdir, p.wspd, p.gust, p.temp, p.hum, p.pres>>)),
          p.dB>>)

\* One sub-field of either report, absent (<<>>) or unparsable.
CoordinateMisses ==
    {[part |-> "lat", text |-> <<"X", "X", "1", "1", ".", "3", "2">>],
     [part |-> "lon", text |-> <<"X", "X", "X", "0", "2", ".", "0", "4">>]}

TrafficMisses ==
    CoordinateMisses \cup
    {[part |-> "course", text |-> <<"x", "x", "x">>],
     [part |-> "speed", text |-> <<"x", "x", "x">>],
     [part |-> "speed", text |-> <<>>],
     [part |-> "alt", text |-> <<>>],
     [part |-> "alt", text |-> <<"/", "A", "=", "z", "z", "z">>],
     [part |-> "id", text |-> <<>>],
     [part |-> "fpm", text |-> <<>>],
     [part |-> "fpm", text |-> <<" ", "x", "f", "p", "m">>],
     [part |-> "rot", text |-> <<>>],
     [part |-> "dB", text |-> <<>>]}

WeatherMisses ==
    CoordinateMisses \cup
    {[part |-> "wdir", text |-> <<"x", "x", "x">>],
     [part |-> "wspd", text |-> <<>>],
     [part |-> "wspd", text |-> <<"/", "x", "x", "x">>],
     [part |-> "gust", text |-> <<>>],
     [part |-> "gust", text |-> <<"g", "x", "x", "x">>],
     [part |-> "temp", text |-> <<>>],
     [part |-> "temp", text |-> <<"t", "x", "x", "x">>],
     [part |-> "hum", text |-> <<>>],
     [part |-> "hum", text |-> <<"h", "x", "x">>],
     [part |-> "pres", text |-> <<>>],
     [part |-> "pres", text |-> <<"b", "x", "x", "x">>],
     [part |-> "dB", text |-> <<>>]}

\* p with the sub-field of miss replaced.
WithMiss(p, miss) == [p EXCEPT ![miss.part] = miss.text]

\* The two well-formed reports, and each with one sub-field missed.
MissLines ==
    {TrafficSentence(TrafficParts), WeatherSentence(WeatherParts)}
        \cup {TrafficSentence(WithMiss(TrafficParts, miss)) : miss \in TrafficMisses}
        \cup {WeatherSentence(WithMiss(WeatherParts, miss)) : miss \in WeatherMisses}

\* The temperatures of a weather block: positive, with a minus sign, absent.
WeatherTemperatures == {<<"t", "0", "3", "0">>, <<"t", "-", "0", "5">>, <<>>}

\* The temperatures of an OGN token t: positive, and negative ones up to the
\* least but one int; and no token.
TokenTemperatures ==
    {[present |-> TRUE, value |-> n] : n \in {12, -1, -5, -2147483647}}
        \cup {[present |-> FALSE, value |-> 0]}

\* The OGN token of a temperature, after its blank.
TemperatureToken(t) ==
    CASE ~t.present            -> <<>>
      [] t.value = 12          -> <<" ", "t", "1", "2">>
      [] t.value = -1          -> <<" ", "t", "-", "1">>
      [] t.value = -5          -> <<" ", "t", "-", "5">>
      [] t.value = -2147483647 -> <<" ", "t", "-", "2", "1", "4", "7", "4", "8", "3", "6", "4", "7">>

\* A traffic report, or with a weather temperature w a weather report, that
\* ends with the OGN token of t.
TemperatureSentence(kind, w, t) ==
    IF kind = "WEATHER"
    THEN WeatherSentence([WeatherParts EXCEPT !.temp = w, !.dB = TemperatureToken(t)])
    ELSE TrafficSentence([TrafficParts EXCEPT !.dB = TemperatureToken(t)])

TemperatureLines ==
    {TemperatureSentence(kind, w, t) :
        kind \in {"TRAFFIC_REPORT", "WEATHER"}, w \in WeatherTemperatures,
        t \in TokenTemperatures}

Lines ==
    TemperatureLines \cup TestLines \cup PrefixLines \cup ShortLines \cup SplitLines \cup CoordinateLines
        \cup EnhancementLines \cup SymbolLines \cup ItemLines \cup MissLines
        \cup MarkerItemLines

-----------------------------------------------------------------------------
(* The formatters.  A latitude or longitude argument is the double          *)
(* (-1)^neg * (whole + micro / 10^6) * 10^zeros, written                    *)
(* <<neg, whole, micro, zeros>> below and with micro = 0 when zeros > 0; an *)
(* altitude is a count of 0.0001 m, a course or a speed a count of tenths.  *)

RECURSIVE DecimalText(_)
\* The decimal digits of n >= 0, as %d, %u and std::to_string write them.
DecimalText(n) ==
    IF n < 10 THEN <<Digits[n + 1]>> ELSE DecimalText(n \div 10) \o <<Digits[(n % 10) + 1]>>

RECURSIVE ZeroPadded(_, _)
\* The flag 0 with a minimum field width.
ZeroPadded(text, width) ==
    IF Len(text) >= width THEN text ELSE ZeroPadded(<<"0">> \o text, width)

\* The conversion %0<width>d of an int.
PrintfInt(n, width) ==
    IF n < 0 THEN <<"-">> \o ZeroPadded(DecimalText(0 - n), width - 1)
    ELSE ZeroPadded(DecimalText(n), width)

\* A rounding to the nearest multiple of unit, of a count that is not
\* half-way between two of them.
Rounded(count, unit) == (count + (unit \div 2)) \div unit

\* The conversion %.4f, and %0<width>.4f, of a double.
PrintfFixed4(d, width) ==
    LET frac  == Rounded(d.micro, 100)
        whole == IF frac = 10000 THEN d.whole + 1 ELSE d.whole
        text  == DecimalText(whole) \o (IF whole = 0 THEN <<>> ELSE ZeroPadded(<<>>, d.zeros))
                     \o <<".">> \o ZeroPadded(DecimalText(frac % 10000), 4)
    IN  IF d.neg THEN <<"-">> \o ZeroPadded(text, width - 1) ELSE ZeroPadded(text, width)

\* What snprintf leaves in a buffer of the given size, without the final NUL.
Snprintf(text, size) == SubSeq(text, 1, Min(Len(text), size - 1))

\* PrintfMinutes cutting the minutes after two decimals instead of rounding.
PrintfMinutes_Truncates(micro) ==
    LET hundredths == (micro * 6) \div 1000
    IN  ZeroPadded(DecimalText(hundredths \div 100) \o <<".">>
                       \o ZeroPadded(DecimalText(hundredths % 100), 2), 5)

\* The conversion %05.2f of (latitude - degrees) * 60.0, from the millionths
\* of a degree.
PrintfMinutes(micro) ==
    LET hundredths == Rounded(micro * 6, 1000)
    IN  ZeroPadded(DecimalText(hundredths \div 100) \o <<".">>
                       \o ZeroPadded(DecimalText(hundredths % 100), 2), 5)

\* latitude >= 0 is true of a negative zero; degrees is the whole part of the
\* absolute value.
formatLatitude(latitude) ==
    LET direction == IF ~latitude.neg \/ (latitude.whole = 0 /\ latitude.micro = 0)
                     THEN "N" ELSE "S"
        degrees   == latitude.whole * Pow10(latitude.zeros)
    IN  Snprintf(PrintfInt(degrees, 2) \o PrintfMinutes(latitude.micro) \o <<direction>>, 16)

formatLongitude(longitude) ==
    LET direction == IF ~longitude.neg \/ (longitude.whole = 0 /\ longitude.micro = 0)
                     THEN "E" ELSE "W"
        degrees   == longitude.whole * Pow10(longitude.zeros)
    IN  Snprintf(PrintfInt(degrees, 3) \o PrintfMinutes(longitude.micro) \o <<direction>>, 16)

\* static_cast<int> of a count of tenths: the fraction is discarded.
TruncatedTenths(tenths) ==
    IF tenths < 0 THEN 0 - ((0 - tenths) \div 10) ELSE tenths \div 10

\* static_cast<int>(altitude * 3.28084) of an altitude of a >= 0 times 0.0001 m:
\* the whole part of a * 328084 / 10^9, without the product.
FeetOf(a) ==
    LET q == a \div 10000
        r == a % 10000
        t == (q * 8084) + (r * 32) + ((r * 8084) \div 10000)
    IN  ((32 * q) + (t \div 10000)) \div 10

altitudeFeet(altitude) ==
    IF altitude < 0 THEN 0 - FeetOf(0 - altitude) ELSE FeetOf(altitude)

AircraftTypeMap ==
    (<<"/", "z">>  :> "unknown") @@
    (<<"/", "'">>  :> "Glider") @@
    (<<"/", "X">>  :> "Copter") @@
    (<<"/", "g">>  :> "Paraglider") @@
    (<<"\\", "^">> :> "Aircraft") @@
    (<<"/", "^">>  :> "Jet") @@
    (<<"/", "O">>  :> "Balloon") @@
    (<<"\\", "n">> :> "StaticObstacle")

\* lookedUp without lastSymbol.clear(): a type with no entry keeps the cached
\* symbol.
lookedUp_NotCleared(symbol, aircraftType, cachedType) ==
    IF cachedType = aircraftType THEN {symbol}
    ELSE IF \E key \in DOMAIN AircraftTypeMap : AircraftTypeMap[key] = aircraftType
         THEN {key \in DOMAIN AircraftTypeMap : AircraftTypeMap[key] = aircraftType}
         ELSE {symbol}

\* The values lastSymbol can have after the lookup of formatPositionReport:
\* the first key found with the type, in whatever order the map is iterated,
\* or the default.
lookedUp(symbol, aircraftType, cachedType) ==
    IF cachedType = aircraftType THEN {symbol}
    ELSE IF \E key \in DOMAIN AircraftTypeMap : AircraftTypeMap[key] = aircraftType
         THEN {key \in DOMAIN AircraftTypeMap : AircraftTypeMap[key] = aircraftType}
         ELSE {<<"\\", "^">>}

\* formatPositionReport with no blank between "TCPIP*:" and the '/'.
formatPositionReport_NoBlank(callSign, latitude, longitude, altitude, course, speed, symbol, now) ==
    LET timeStr     == Snprintf(PrintfInt(now[1], 2) \o PrintfInt(now[2], 2)
                                    \o PrintfInt(now[3], 2), 7)
        courseStr   == Snprintf(PrintfInt(TruncatedTenths(course), 3), 4)
        speedStr    == Snprintf(PrintfInt(TruncatedTenths(speed), 3), 4)
        altitudeStr == Snprintf(PrintfInt(altitudeFeet(altitude), 6), 7)
    IN  callSign \o <<">", "A", "P", "R", "S", ",", "T", "C", "P", "I", "P", "*", ":", "/">> \o timeStr \o <<"h">> \o formatLatitude(latitude)
            \o <<symbol[1]>> \o formatLongitude(longitude) \o <<symbol[2]>>
            \o courseStr \o <<"/">> \o speedStr \o <<"/", "A", "=">> \o altitudeStr \o <<"\n">>

\* The text formatPositionReport returns, from the symbol of its lookup and
\* the hour, minute and second of std::gmtime.
formatPositionReport(callSign, latitude, longitude, altitude, course, speed, symbol, now) ==
    LET timeStr     == Snprintf(PrintfInt(now[1], 2) \o PrintfInt(now[2], 2)
                                    \o PrintfInt(now[3], 2), 7)
        courseStr   == Snprintf(PrintfInt(TruncatedTenths(course), 3), 4)
        speedStr    == Snprintf(PrintfInt(TruncatedTenths(speed), 3), 4)
        altitudeStr == Snprintf(PrintfInt(altitudeFeet(altitude), 6), 7)
    IN  callSign \o <<">", "A", "P", "R", "S", ",", "T", "C", "P", "I", "P", "*", ":", " ", "/">> \o timeStr \o <<"h">> \o formatLatitude(latitude)
            \o <<symbol[1]>> \o formatLongitude(longitude) \o <<symbol[2]>>
            \o courseStr \o <<"/">> \o speedStr \o <<"/", "A", "=">> \o altitudeStr \o <<"\n">>

\* The printable characters of ASCII from the blank (32) to the underscore
\* (95), and from a (97) to the tilde (126).
AsciiTo95 ==
    <<" ", "!", "\"", "#", "$", "%", "&", "'", "(", ")", "*", "+", ",", "-", ".", "/">> \o
    <<"0", "1", "2", "3", "4", "5", "6", "7", "8", "9", ":", ";", "<", "=", ">", "?">> \o
    <<"@", "A", "B", "C", "D", "E", "F", "G", "H", "I", "J", "K", "L", "M", "N", "O">> \o
    <<"P", "Q", "R", "S", "T", "U", "V", "W", "X", "Y", "Z", "[", "\\", "]", "^", "_">>

AsciiFrom97 ==
    <<"a", "b", "c", "d", "e", "f", "g", "h", "i", "j", "k", "l", "m", "n", "o", "p">> \o
    <<"q", "r", "s", "t", "u", "v", "w", "x", "y", "z", "{", "|", "}", "~">>

\* static_cast<unsigned char> of a character.
ByteOf(c) ==
    IF IndexIn(c, AsciiTo95) >= 0 THEN 32 + IndexIn(c, AsciiTo95)
    ELSE 97 + IndexIn(c, AsciiFrom97)

RECURSIVE SumOfBytes(_, _)
\* The loop of calculatePassword: the sum over the first n characters.
SumOfBytes(callSign, n) ==
    IF n = 0 THEN 0 ELSE SumOfBytes(callSign, n - 1) + ByteOf(callSign[n])

\* calculatePassword summing every character of the call sign.
calculatePassword_WholeCallSign(callSign) ==
    DecimalText(SumOfBytes(callSign, Len(callSign)) % 10000)

calculatePassword(callSign) ==
    DecimalText(SumOfBytes(callSign, Min(Len(callSign), 6)) % 10000)

formatFilter(latitude, longitude, receiveRadius) ==
    Snprintf(<<"f", "i", "l", "t", "e", "r", " ", "r", "/">> \o PrintfFixed4(latitude, 0) \o <<"/">> \o PrintfFixed4(longitude, 0)
                 \o <<"/">> \o DecimalText(receiveRadius) \o <<" ", "t", "/", "o">>, 64)

formatLoginString(callSign, latitude, longitude, receiveRadius, appName, appVersion) ==
    <<"u", "s", "e", "r", " ">> \o callSign \o <<" ", "p", "a", "s", "s", " ">> \o calculatePassword(callSign) \o <<" ", "v", "e", "r", "s", " ">> \o appName
        \o <<" ">> \o appVersion \o <<" ">>
        \o formatFilter(latitude, longitude, receiveRadius) \o <<"\n">>

formatFilterCommand(latitude, longitude, receiveRadiusKm) ==
    Snprintf(<<"#", " ", "f", "i", "l", "t", "e", "r", " ", "r", "/">> \o PrintfFixed4(latitude, 0) \o <<"/">> \o PrintfFixed4(longitude, 0)
                 \o <<"/">> \o DecimalText(receiveRadiusKm) \o <<" ", "t", "/", "o">> \o <<"\n">>, 64)

\* The threads that call formatPositionReport.
NumThreads == 2

Threads == 1..NumThreads

\* A thread outside formatPositionReport.
NoCall == [pc |-> "idle", aircraftType |-> "unknown", symbol |-> <<>>, misread |-> FALSE]

\* dumpOGN before connectToServer has returned.
NotConnected ==
    [pc |-> "start", stream |-> <<>>, received |-> 0, chunks |-> <<>>, buffer |-> <<>>,
     lines |-> <<>>]

\* No formatter call has returned a value the caller has yet to take.
NoResult == [op |-> "none", text |-> <<>>]

-----------------------------------------------------------------------------
(* The driver: one record per line, decoded by parseAprsisMessage *)

Init ==
    /\ msg = OgnMessage
    /\ pc = "idle"
    /\ ognPart = EmptyView
    /\ it = 0
    /\ oob = FALSE
    /\ lastAircraftType = "unknown"
    /\ lastSymbol = <<"/", "z">>
    /\ formatted = NoResult
    /\ threads = [t \in Threads |-> NoCall]
    /\ reader = NotConnected

\* message.sentence = line, on a new or a reset record.
ReadLine(line) ==
    /\ pc = "idle"
    /\ msg' = [msg EXCEPT !.sentence = line]
    /\ pc' = "call"
    /\ UNCHANGED <<ognPart, it, oob>>
    /\ UNCHANGED <<lastAircraftType, lastSymbol, formatted, threads, reader>>

\* parseAprsisMessage, from its entry to its return or, in parseTrafficReport,
\* to the loop over ognPart.
ParseCall ==
    /\ pc = "call"
    /\ msg.type = "UNKNOWN"
    /\ msg' = parseUpToLoop(msg)
    /\ oob' = (oob \/ OutOfRange(EntryReads(msg)))
    /\ IF EntersLoop(msg.sentence)
       THEN /\ pc' = "loop"
            /\ ognPart' = OgnPartOf(msg.sentence, BodyOf(msg.sentence))
            /\ it' = 0
       ELSE /\ pc' = "done"
            /\ UNCHANGED <<ognPart, it>>
    /\ UNCHANGED <<lastAircraftType, lastSymbol, formatted, threads, reader>>

\* One iteration of the loop over ognPart.
LoopIteration ==
    /\ pc = "loop"
    /\ it # ognPart.len
    /\ msg' = loopIteration(msg, ognPart, it).m
    /\ it' = loopIteration(msg, ognPart, it).it
    /\ oob' = (oob \/ OutOfRange(IterationReads(msg, ognPart, it)))
    /\ UNCHANGED <<pc, ognPart>>
    /\ UNCHANGED <<lastAircraftType, lastSymbol, formatted, threads, reader>>

\* The end of the loop, the identity code, and the return.
ParseReturn ==
    /\ pc = "loop"
    /\ it = ognPart.len
    /\ msg' = decodeIdentity(msg)
    /\ oob' = (oob \/ OutOfRange(IdentityReads(msg)))
    /\ pc' = "done"
    /\ ognPart' = EmptyView
    /\ it' = 0
    /\ UNCHANGED <<lastAircraftType, lastSymbol, formatted, threads, reader>>

\* The next round of the read loop of dumpOGN: a new record.
NewMessage ==
    /\ pc = "done"
    /\ msg' = OgnMessage
    /\ pc' = "idle"
    /\ oob' = FALSE
    /\ UNCHANGED <<ognPart, it>>
    /\ UNCHANGED <<lastAircraftType, lastSymbol, formatted, threads, reader>>

\* The next round of the loop of the performance test: message.reset().
Reset ==
    /\ pc = "done"
    /\ msg' = reset(msg)
    /\ pc' = "idle"
    /\ oob' = FALSE
    /\ UNCHANGED <<ognPart, it>>
    /\ UNCHANGED <<lastAircraftType, lastSymbol, formatted, threads, reader>>

Next ==
    \/ \E line \in Lines : ReadLine(line)
    \/ ParseCall
    \/ LoopIteration
    \/ ParseReturn
    \/ NewMessage
    \/ Reset

Spec == Init /\ [][Next]_vars

-----------------------------------------------------------------------------
(* The callers of the formatters: dumpOGN's login and the tests *)

\* The call signs: the one of the tests, the empty one, a short one, one that
\* differs from the first after its sixth character, one in lower case.
CallSigns ==
    {<<"E", "N", "R", "1", "2", "3", "4", "5">>, <<>>, <<"A", "B", "1">>, <<"E", "N", "R", "1", "2", "3", "9", "9">>, <<"e", "n", "r", "o", "u", "t", "e">>}

AppNames == {<<"E", "n", "r", "o", "u", "t", "e">>}

AppVersions == {<<"1", ".", "9", "9">>}

\* Latitudes and longitudes of the tests, a negative zero, a value whose
\* fraction rounds up to the next whole, and a value of thirteen digits.
FilterLatitudes ==
    {[neg |-> d[1], whole |-> d[2], micro |-> d[3], zeros |-> d[4]] :
        d \in {<<TRUE, 48, 0, 0>>, <<FALSE, 51, 188667, 0>>, <<TRUE, 0, 0, 0>>,
               <<FALSE, 89, 999990, 0>>, <<TRUE, 1, 0, 12>>}}

FilterLongitudes ==
    {[neg |-> d[1], whole |-> d[2], micro |-> d[3], zeros |-> d[4]] :
        d \in {<<FALSE, 7, 851235, 0>>, <<TRUE, 1, 34000, 0>>, <<TRUE, 1, 0, 12>>}}

Radii == {99, 0, 99999999}

\* Altitudes in 0.0001 m: the one of the test, none, 10 m below sea level,
\* 3048 m, and 30481 m below sea level.
Altitudes == {1850136, 0, 0 - 100000, 30480000, 0 - 304810000}

\* Courses and speeds in tenths.
Courses == {860, 3599}

Speeds == {70, 79, 9990, 10000}

Clock == {<<7, 45, 48>>, <<0, 0, 0>>}

\* Fractions of a degree in millionths: none, the smallest, those next to
\* half a hundredth of a minute, some in between, and those within a
\* hundredth of a minute below the next whole degree.
Fractions == {0, 1, 83, 84, 188667, 500000, 999916, 999917, 999999}

\* Latitudes in [-90, 90] and longitudes in [-180, 180].
Latitudes ==
    {[neg |-> n, whole |-> w, micro |-> f, zeros |-> 0] :
        n \in BOOLEAN, w \in {0, 51, 89}, f \in Fractions}
        \cup {[neg |-> n, whole |-> 90, micro |-> 0, zeros |-> 0] : n \in BOOLEAN}

Longitudes ==
    {[neg |-> n, whole |-> w, micro |-> f, zeros |-> 0] :
        n \in BOOLEAN, w \in {0, 1, 179}, f \in Fractions}
        \cup {[neg |-> n, whole |-> 180, micro |-> 0, zeros |-> 0] : n \in BOOLEAN}

FormatPositionReport(callSign, latitude, longitude, altitude, course, speed, aircraftType, now) ==
    /\ formatted = NoResult
    /\ \E symbol \in lookedUp(lastSymbol, aircraftType, lastAircraftType) :
           /\ lastSymbol' = symbol
           /\ formatted' =
                  [op   |-> "formatPositionReport",
                   text |-> formatPositionReport(callSign, latitude, longitude, altitude,
                                                 course, speed, symbol, now),
                   args |-> [callSign |-> callSign, latitude |-> latitude,
                             longitude |-> longitude, altitude |-> altitude,
                             course |-> course, speed |-> speed,
                             aircraftType |-> aircraftType, now |-> now]]
    /\ lastAircraftType' = aircraftType
    /\ UNCHANGED <<msg, pc, ognPart, it, oob, threads, reader>>

FormatLoginString(callSign, latitude, longitude, receiveRadius, appName, appVersion) ==
    /\ formatted = NoResult
    /\ formatted' =
           [op   |-> "formatLoginString",
            text |-> formatLoginString(callSign, latitude, longitude, receiveRadius,
                                       appName, appVersion),
            args |-> [callSign |-> callSign, latitude |-> latitude, longitude |-> longitude,
                      receiveRadius |-> receiveRadius, appName |-> appName,
                      appVersion |-> appVersion]]
    /\ UNCHANGED <<lastAircraftType, lastSymbol, msg, pc, ognPart, it, oob, threads, reader>>

FormatFilterCommand(latitude, longitude, receiveRadiusKm) ==
    /\ formatted = NoResult
    /\ formatted' =
           [op   |-> "formatFilterCommand",
            text |-> formatFilterCommand(latitude, longitude, receiveRadiusKm),
            args |-> [latitude |-> latitude, longitude |-> longitude,
                      receiveRadius |-> receiveRadiusKm]]
    /\ UNCHANGED <<lastAircraftType, lastSymbol, msg, pc, ognPart, it, oob, threads, reader>>

\* The caller takes the returned string.
TakeResult ==
    /\ formatted # NoResult
    /\ formatted' = NoResult
    /\ UNCHANGED <<lastAircraftType, lastSymbol, msg, pc, ognPart, it, oob, threads, reader>>

FormatNext ==
    \/ \E callSign \in {<<"E", "N", "R", "1", "2", "3", "4", "5">>, <<>>}, latitude \in {d \in FilterLatitudes : d.zeros = 0 /\ d.whole # 48},
          longitude \in {d \in FilterLongitudes : d.zeros = 0}, altitude \in Altitudes, course \in Courses,
          speed \in Speeds, aircraftType \in OgnAircraftType, now \in Clock :
           FormatPositionReport(callSign, latitude, longitude, altitude, course, speed,
                                aircraftType, now)
    \/ \E latitude \in Latitudes, longitude \in Longitudes :
           FormatPositionReport(<<"E", "N", "R", "1", "2", "3", "4", "5">>, latitude, longitude, 1850136, 860, 70,
                                "unknown", <<7, 45, 48>>)
    \/ \E callSign \in CallSigns, latitude \in FilterLatitudes, longitude \in FilterLongitudes,
          receiveRadius \in Radii, appName \in AppNames, appVersion \in AppVersions :
           FormatLoginString(callSign, latitude, longitude, receiveRadius, appName, appVersion)
    \/ \E latitude \in FilterLatitudes, longitude \in FilterLongitudes, receiveRadius \in Radii :
           FormatFilterCommand(latitude, longitude, receiveRadius)
    \/ TakeResult

FormatSpec == Init /\ [][FormatNext]_vars

-----------------------------------------------------------------------------
(* formatPositionReport called from several threads: the statements that    *)
(* read or write the static cache, one step each                            *)

\* The categories the threads ask for: two with an entry of AircraftTypeMap,
\* one without.
ThreadTypes == {"unknown", "Glider", "Airship"}

\* The keys of AircraftTypeMap with the type, or the default.
SymbolsOf(aircraftType) ==
    IF \E key \in DOMAIN AircraftTypeMap : AircraftTypeMap[key] = aircraftType
    THEN {key \in DOMAIN AircraftTypeMap : AircraftTypeMap[key] = aircraftType}
    ELSE {<<"\\", "^">>}

\* What lastSymbol[k] can read: the character, the terminating NUL at
\* k = size(), and beyond it whatever the string's buffer holds.
CharRead(symbol, k) ==
    IF k < Len(symbol) THEN {symbol[k + 1]}
    ELSE IF k = Len(symbol) THEN {NulChar}
    ELSE {NulChar} \cup {key[2] : key \in DOMAIN AircraftTypeMap}

\* The thread's locals after a step.
Moved(t, place) == [threads EXCEPT ![t].pc = place]

ThreadCall(t, aircraftType) ==
    /\ threads[t].pc = "idle"
    /\ threads' = [threads EXCEPT ![t] = [NoCall EXCEPT !.pc = "check",
                                                         !.aircraftType = aircraftType]]
    /\ UNCHANGED <<lastAircraftType, lastSymbol, formatted, msg, pc, ognPart, it, oob, reader>>

\* if (lastAircraftType != aircraftType)
CheckCache(t) ==
    /\ threads[t].pc = "check"
    /\ threads' = Moved(t, IF lastAircraftType # threads[t].aircraftType
                           THEN "clear" ELSE "use")
    /\ UNCHANGED <<lastAircraftType, lastSymbol, formatted, msg, pc, ognPart, it, oob, reader>>

\* lastSymbol.clear()
ClearSymbol(t) ==
    /\ threads[t].pc = "clear"
    /\ lastSymbol' = <<>>
    /\ threads' = Moved(t, "lookup")
    /\ UNCHANGED <<lastAircraftType, formatted, msg, pc, ognPart, it, oob, reader>>

\* The loop over AircraftTypeMap: lastSymbol = pair.first for the first pair
\* found with the type.
ReverseLookup(t) ==
    /\ threads[t].pc = "lookup"
    /\ IF \E key \in DOMAIN AircraftTypeMap : AircraftTypeMap[key] = threads[t].aircraftType
       THEN \E key \in SymbolsOf(threads[t].aircraftType) : lastSymbol' = key
       ELSE UNCHANGED lastSymbol
    /\ threads' = Moved(t, "default")
    /\ UNCHANGED <<lastAircraftType, formatted, msg, pc, ognPart, it, oob, reader>>

\* if (lastSymbol.empty()) lastSymbol = "\\^"
DefaultSymbol(t) ==
    /\ threads[t].pc = "default"
    /\ lastSymbol' = IF lastSymbol = <<>> THEN <<"\\", "^">> ELSE lastSymbol
    /\ threads' = Moved(t, "update")
    /\ UNCHANGED <<lastAircraftType, formatted, msg, pc, ognPart, it, oob, reader>>

\* lastAircraftType = aircraftType
UpdateCache(t) ==
    /\ threads[t].pc = "update"
    /\ lastAircraftType' = threads[t].aircraftType
    /\ threads' = Moved(t, "use")
    /\ UNCHANGED <<lastSymbol, formatted, msg, pc, ognPart, it, oob, reader>>

\* result += lastSymbol[0], and later result += lastSymbol[1]
UseSymbol(t) ==
    /\ threads[t].pc = "use"
    /\ \E c \in CharRead(lastSymbol, Len(threads[t].symbol)) :
           threads' = [threads EXCEPT
               ![t].symbol  = Append(@, c),
               ![t].misread = @ \/ lastSymbol \notin SymbolsOf(threads[t].aircraftType),
               ![t].pc      = IF Len(threads[t].symbol) = 1 THEN "return" ELSE "use"]
    /\ UNCHANGED <<lastAircraftType, lastSymbol, formatted, msg, pc, ognPart, it, oob, reader>>

\* return result
ThreadReturn(t) ==
    /\ threads[t].pc = "return"
    /\ threads' = [threads EXCEPT ![t] = NoCall]
    /\ UNCHANGED <<lastAircraftType, lastSymbol, formatted, msg, pc, ognPart, it, oob, reader>>

ThreadNext ==
    \E t \in Threads :
        \/ \E aircraftType \in ThreadTypes : ThreadCall(t, aircraftType)
        \/ CheckCache(t)
        \/ ClearSymbol(t)
        \/ ReverseLookup(t)
        \/ DefaultSymbol(t)
        \/ UpdateCache(t)
        \/ UseSymbol(t)
        \/ ThreadReturn(t)

ThreadSpec == Init /\ [][ThreadNext]_vars

-----------------------------------------------------------------------------
(* readLine of dumpOGN and the loop of main that calls it.  reader.stream   *)
(* is what the server sends, reader.received the number of its bytes that   *)
(* recv has returned, reader.chunks the sizes of the chunks, reader.lines   *)
(* the lines readLine has returned.                                         *)

\* The longest stream.
MaxStreamLen == 4

StreamAlphabet == {"a", "\r", "\n"}

Streams == UNION {[1..n -> StreamAlphabet] : n \in 0..MaxStreamLen}

\* buffer.find('\n'): the index of the first newline, or npos.
FindNewline(buffer) ==
    IF \E i \in 1..Len(buffer) : buffer[i] = "\n"
    THEN (CHOOSE i \in 1..Len(buffer) :
              buffer[i] = "\n" /\ \A j \in 1..(i - 1) : buffer[j] # "\n") - 1
    ELSE npos

RECURSIVE WithoutCarriageReturns(_)
\* The text with every carriage return at its end removed.
WithoutCarriageReturns(text) ==
    IF text # <<>> /\ text[Len(text)] = "\r"
    THEN WithoutCarriageReturns(SubSeq(text, 1, Len(text) - 1))
    ELSE text

\* takeLine removing every carriage return at the end of the line.
takeLine_EveryCarriageReturn(buffer) ==
    LET pos  == FindNewline(buffer)
    IN  [line   |-> WithoutCarriageReturns(SubSeq(buffer, 1, pos)),
         buffer |-> SubSeq(buffer, pos + 2, Len(buffer))]

\* line = buffer.substr(0, pos); buffer.erase(0, pos + 1); and line.pop_back()
\* if the line ends with a carriage return.
takeLine(buffer) ==
    LET pos  == FindNewline(buffer)
        line == SubSeq(buffer, 1, pos)
    IN  [line   |-> IF line # <<>> /\ line[Len(line)] = "\r"
                    THEN SubSeq(line, 1, Len(line) - 1) ELSE line,
         buffer |-> SubSeq(buffer, pos + 2, Len(buffer))]

\* main connects and calls readLine with an empty buffer.
Connect(stream) ==
    /\ reader.pc = "start"
    /\ reader' = [reader EXCEPT !.pc = "find", !.stream = stream]
    /\ UNCHANGED <<lastAircraftType, lastSymbol, formatted, threads, msg, pc, ognPart, it, oob>>

\* The head of the loop of readLine: with a newline in the buffer the line is
\* returned, and main calls readLine again; without one readLine calls recv.
ReadLineFind ==
    /\ reader.pc = "find"
    /\ IF FindNewline(reader.buffer) # npos
       THEN reader' = [reader EXCEPT !.lines  = Append(@, takeLine(reader.buffer).line),
                                     !.buffer = takeLine(reader.buffer).buffer]
       ELSE reader' = [reader EXCEPT !.pc = "recv"]
    /\ UNCHANGED <<lastAircraftType, lastSymbol, formatted, threads, msg, pc, ognPart, it, oob>>

\* recv returns the next bytes of the stream, at least one and at most
\* sizeof(chunk), and readLine appends them to the buffer.
ReadLineRecv(bytes) ==
    /\ reader.pc = "recv"
    /\ bytes > 0
    /\ bytes <= 1024
    /\ reader.received + bytes <= Len(reader.stream)
    /\ reader' = [reader EXCEPT
           !.buffer   = @ \o SubSeq(reader.stream, reader.received + 1,
                                    reader.received + bytes),
           !.received = @ + bytes,
           !.chunks   = Append(@, bytes),
           !.pc       = "find"]
    /\ UNCHANGED <<lastAircraftType, lastSymbol, formatted, threads, msg, pc, ognPart, it, oob>>

\* recv returns 0 or less, the connection closed or failed: readLine returns
\* false and main leaves its loop.
ReadLineClosed ==
    /\ reader.pc = "recv"
    /\ reader' = [reader EXCEPT !.pc = "closed"]
    /\ UNCHANGED <<lastAircraftType, lastSymbol, formatted, threads, msg, pc, ognPart, it, oob>>

ReadNext ==
    \/ \E stream \in Streams : Connect(stream)
    \/ ReadLineFind
    \/ \E bytes \in 1..MaxStreamLen : ReadLineRecv(bytes)
    \/ ReadLineClosed

ReadSpec == Init /\ [][ReadNext]_vars

-----------------------------------------------------------------------------
(* The claims.  Their operators read the line as plain text, with the        *)
(* 1-based indices of Sequences, and not through the decoder's operators.    *)

\* The index of the first c in text, or 0.
PosOf(text, c) ==
    IF \E i \in 1..Len(text) : text[i] = c
    THEN CHOOSE i \in 1..Len(text) : text[i] = c /\ \A j \in 1..(i - 1) : text[j] # c
    ELSE 0

ClaimHeader(line) == SubSeq(line, 1, PosOf(line, ":") - 1)

ClaimBody(line) == SubSeq(line, PosOf(line, ":") + 1, Len(line))

\* The body up to its first blank.
ClaimAprsPart(line) ==
    LET body == ClaimBody(line)
    IN  IF PosOf(body, " ") = 0 THEN body ELSE SubSeq(body, 1, PosOf(body, " ") - 1)

\* The body after its first blank.
ClaimOgnPart(line) ==
    LET body == ClaimBody(line)
    IN  IF PosOf(body, " ") = 0 THEN <<>> ELSE SubSeq(body, PosOf(body, " ") + 1, Len(body))

\* The line is no comment and has a header and a body of 5 or more characters.
Structured(line) ==
    /\ ~(Len(line) > 0 /\ line[1] = "#")
    /\ PosOf(line, ":") > 0
    /\ Len(ClaimHeader(line)) >= 5
    /\ Len(ClaimBody(line)) >= 5

\* The line passes the structural checks of a traffic or weather report.
Decodable(line) ==
    /\ Structured(line)
    /\ ClaimBody(line)[1] = "/"
    /\ PosOf(ClaimHeader(line), ">") > 0
    /\ Len(ClaimAprsPart(line)) >= 30

\* The text of a borrowed field of the record.
FieldText(f) == TextOf(msg.sentence, msg[f])

\* The record with every field but the sentence at its default.
DefaultsWith(line) == [OgnMessage EXCEPT !.sentence = line]

Returned == pc = "done"

\* The kinds the decision list of C1 allows for a line.
C1_Kinds(line) ==
    IF Len(line) > 0 /\ line[1] = "#" THEN {"COMMENT"}
    ELSE IF PosOf(line, ":") = 0 THEN {"UNKNOWN"}
    ELSE IF Len(ClaimHeader(line)) < 5 \/ Len(ClaimBody(line)) < 5 THEN {"UNKNOWN"}
    ELSE IF ClaimBody(line)[1] = "/" THEN {"TRAFFIC_REPORT", "WEATHER", "UNKNOWN"}
    ELSE IF ClaimBody(line)[1] = ">" THEN {"STATUS"}
    ELSE {"UNKNOWN"}

\* C1: parseAprsisMessage, entered with kind Unknown, sets the kind by the
\* decision list: '#' first -> Comment, and nothing else changes; no ':' ->
\* Unknown; header or body under 5 characters -> Unknown; body begins with '/'
\* -> TrafficReport, Weather or Unknown; body begins with '>' -> Status; else
\* Unknown.
C1_DecisionList ==
    Returned =>
        /\ msg.type \in C1_Kinds(msg.sentence)
        /\ msg.type = "COMMENT" =>
              msg = [DefaultsWith(msg.sentence) EXCEPT !.type = "COMMENT"]

C1_Witness ==
    /\ Returned
    /\ msg.type = "STATUS"
    /\ Len(ClaimHeader(msg.sentence)) = 5

\* C2: parseAprsisMessage reads no character outside the text it reads from,
\* and its loop over the OGN part advances in every iteration and stays inside
\* the OGN part, so that the call returns.
C2_NoReadOutOfRange ==
    /\ ~oob
    /\ pc = "loop" =>
          /\ it >= 0 /\ it <= ognPart.len
          /\ it # ognPart.len =>
                /\ loopIteration(msg, ognPart, it).it > it
                /\ loopIteration(msg, ognPart, it).it <= ognPart.len

\* A decoded line whose identity token is too short to hold an address.
C2_Witness ==
    /\ Returned
    /\ msg.type = "TRAFFIC_REPORT"
    /\ Len(FieldText("aircraftID")) \in 1..7
    /\ Len(FieldText("address")) = 0

\* C3: whenever the kind is left Unknown, every field other than the sentence
\* text holds its default; the source id is empty.
C3_UnknownKeepsDefaults ==
    Returned /\ msg.type = "UNKNOWN" => msg = DefaultsWith(msg.sentence)

\* C4: for a line with header and body of 5 or more characters whose body
\* begins with '/': the kind is Unknown if the header has no '>' or the APRS
\* part (the body up to its first blank) has fewer than 30 characters;
\* otherwise the kind is TrafficReport or Weather, the source id is the header
\* before its first '>' and the timestamp the characters at offsets 1..6.
C4_StructuralChecks ==
    LET line   == msg.sentence
        header == ClaimHeader(line)
        aprs   == ClaimAprsPart(line)
    IN  Returned /\ Structured(line) /\ ClaimBody(line)[1] = "/" =>
            IF PosOf(header, ">") = 0 \/ Len(aprs) < 30
            THEN msg.type = "UNKNOWN"
            ELSE /\ msg.type \in {"TRAFFIC_REPORT", "WEATHER"}
                 /\ FieldText("sourceId") = SubSeq(header, 1, PosOf(header, ">") - 1)
                 /\ FieldText("timestamp") = SubSeq(aprs, 2, 7)

C4_Witness ==
    /\ Returned
    /\ msg.type = "TRAFFIC_REPORT"
    /\ Len(ClaimAprsPart(msg.sentence)) = 30
    /\ Len(FieldText("sourceId")) = 9
    /\ Len(FieldText("timestamp")) = 6

\* The value of a decimal digit character.
DigitOf ==
    ("0" :> 0) @@ ("1" :> 1) @@ ("2" :> 2) @@ ("3" :> 3) @@ ("4" :> 4) @@
    ("5" :> 5) @@ ("6" :> 6) @@ ("7" :> 7) @@ ("8" :> 8) @@ ("9" :> 9)

\* text is an optional '-', then digits with at most one '.', one digit at least.
NumberShape(text) ==
    LET first  == IF Len(text) > 0 /\ text[1] = "-" THEN 2 ELSE 1
        places == first..Len(text)
    IN  /\ \A i \in places : text[i] \in DOMAIN DigitOf \cup {"."}
        /\ Cardinality({i \in places : text[i] = "."}) <= 1
        /\ \E i \in places : text[i] \in DOMAIN DigitOf

\* text begins with a number.
BeginsWithNumber(text) == \E k \in 1..Len(text) : NumberShape(SubSeq(text, 1, k))

\* The longest number text begins with.
LeadingNumber(text) ==
    LET k == CHOOSE k \in 1..Len(text) :
                 /\ NumberShape(SubSeq(text, 1, k))
                 /\ \A j \in (k + 1)..Len(text) : ~NumberShape(SubSeq(text, 1, j))
    IN  SubSeq(text, 1, k)

RECURSIVE PlaceValues(_, _, _, _)
\* The sum of the digits of number at indices i and above, each weighted by its
\* place, in units of 1/units; point is the index of the '.', or Len + 1.
PlaceValues(number, i, point, units) ==
    IF i > Len(number) THEN 0
    ELSE PlaceValues(number, i + 1, point, units) +
         (IF number[i] \notin DOMAIN DigitOf THEN 0
          ELSE IF i < point THEN DigitOf[number[i]] * units * Pow10(point - 1 - i)
          ELSE (DigitOf[number[i]] * units) \div Pow10(i - point))

\* The value of a number text in units of 1/units.
ValueOf(number, units) ==
    LET point     == IF PosOf(number, ".") = 0 THEN Len(number) + 1 ELSE PosOf(number, ".")
        magnitude == PlaceValues(number, 1, point, units)
    IN  IF number[1] = "-" THEN 0 - magnitude ELSE magnitude

\* The index in body of the first "!W", or 0.
PrecisionPos(body) ==
    LET found == {i \in 1..(Len(body) - 1) : body[i] = "!" /\ body[i + 1] = "W"}
    IN  IF found = {} THEN 0 ELSE CHOOSE i \in found : \A j \in found : i <= j

\* The precision enhancement of coordinate k (1 latitude, 2 longitude) in units
\* of 1/600000 degree: ten times the k-th character after the first "!W" of
\* the body when that is a digit and the body holds at least 5 characters from
\* the '!' on, else 0.
PrecisionOf(line, k) ==
    LET body == ClaimBody(line)
        p    == PrecisionPos(body)
    IN  IF p > 0 /\ Len(body) >= p + 4 /\ body[p + 1 + k] \in DOMAIN DigitOf
        THEN 10 * DigitOf[body[p + 1 + k]] ELSE 0

\* DD + MM.mm/60 (+ enhancement), negated on the letter negative, in units of
\* 1/600000 degree; NaN when degrees or minutes do not begin with a number.
CoordinateOf(text, degreeDigits, letter, negative, enhancement) ==
    LET degrees == SubSeq(text, 1, degreeDigits)
        minutes == SubSeq(text, degreeDigits + 1, Len(text))
        value   == ValueOf(LeadingNumber(degrees), 600000)
                     + ValueOf(LeadingNumber(minutes), 10000) + enhancement
    IN  IF ~BeginsWithNumber(degrees) \/ ~BeginsWithNumber(minutes) THEN NaN
        ELSE IF letter = negative THEN Num(0 - value)
        ELSE Num(value)

\* The latitude and longitude C5 describes, each with an enhancement.
LatitudeOf(line, enhancement) ==
    LET aprs == ClaimAprsPart(line)
    IN  CoordinateOf(SubSeq(aprs, 9, 15), 2, aprs[16], "S", enhancement)

LongitudeOf(line, enhancement) ==
    LET aprs == ClaimAprsPart(line)
    IN  CoordinateOf(SubSeq(aprs, 18, 25), 3, aprs[26], "W", enhancement)

\* C5 as stated: for a record that passed the structural checks, latitude =
\* DD + MM.mm/60 from offsets 8..14, negated exactly when offset 15 is 'S';
\* longitude = DDD + MM.mm/60 from offsets 17..24, negated exactly when offset
\* 25 is 'W'; a coordinate whose degrees or minutes text does not begin with a
\* number is NaN and the other coordinate is unaffected.
C5_WithoutEnhancement ==
    Returned /\ Decodable(msg.sentence) =>
        /\ msg.latitude = LatitudeOf(msg.sentence, 0)
        /\ msg.longitude = LongitudeOf(msg.sentence, 0)

\* C5 (amended): as stated, and before the negation d x 0.001/60 is added to
\* the latitude when the body holds "!W" followed by at least 3 characters
\* and the character after the first "!W" is a digit d, and likewise to the
\* longitude for the second character after the first "!W".
C5_Coordinates ==
    Returned /\ Decodable(msg.sentence) =>
        /\ msg.latitude = LatitudeOf(msg.sentence, PrecisionOf(msg.sentence, 1))
        /\ msg.longitude = LongitudeOf(msg.sentence, PrecisionOf(msg.sentence, 2))

\* A southern latitude that an enhancement digit has refined.
C5_Witness ==
    /\ Returned
    /\ Decodable(msg.sentence)
    /\ ~msg.latitude.nan
    /\ msg.latitude.v < 0
    /\ PrecisionOf(msg.sentence, 1) > 0
    /\ msg.latitude # LatitudeOf(msg.sentence, 0)

\* The symbol key of the APRS part, where the APRS part has one.
SymbolKeyOf(line) ==
    LET aprs == ClaimAprsPart(line) IN <<aprs[17], aprs[27]>>

SymbolOf(line) ==
    IF SymbolKeyOf(line) \in DOMAIN AprsSymbolMap
    THEN AprsSymbolMap[SymbolKeyOf(line)] ELSE "UNKNOWN"

\* C6 as stated: in every record the symbol is the table entry for the key
\* (offset 16, offset 26) of the APRS part, or Unknown when the key is not in
\* the table (or the line has no such characters); the kind is Weather iff the
\* symbol is WeatherStation; a decoded record with another symbol has kind
\* TrafficReport; UAV is never produced.
C6_EveryRecord ==
    LET line == msg.sentence
        keyed == /\ ~(Len(line) > 0 /\ line[1] = "#")
                 /\ PosOf(line, ":") > 0
                 /\ Len(ClaimAprsPart(line)) >= 27
    IN  Returned =>
            /\ msg.symbol = IF keyed THEN SymbolOf(line) ELSE "UNKNOWN"
            /\ (msg.type = "WEATHER") <=> (msg.symbol = "WEATHERSTATION")
            /\ Decodable(line) /\ msg.symbol # "WEATHERSTATION" => msg.type = "TRAFFIC_REPORT"
            /\ msg.symbol # "UAV"

\* C6 (amended): in every record that passed the structural checks the symbol
\* is the table entry for the key (offset 16, offset 26) of the APRS part, or
\* Unknown when the key is not in the table, and in every other record the
\* symbol is Unknown; the kind is Weather iff the symbol is WeatherStation; a
\* decoded record with another symbol has kind TrafficReport; UAV is never
\* produced.
C6_Symbol ==
    LET line == msg.sentence
    IN  Returned =>
            /\ msg.symbol = IF Decodable(line) THEN SymbolOf(line) ELSE "UNKNOWN"
            /\ (msg.type = "WEATHER") <=> (msg.symbol = "WEATHERSTATION")
            /\ Decodable(line) /\ msg.symbol # "WEATHERSTATION" => msg.type = "TRAFFIC_REPORT"
            /\ msg.symbol # "UAV"

C6_Witness ==
    /\ Returned
    /\ msg.type = "WEATHER"
    /\ msg.symbol = "WEATHERSTATION"
    /\ SymbolKeyOf(msg.sentence) = <<"/", "_">>

\* The value of a hexadecimal digit character, upper or lower case.
HexOf ==
    DigitOf @@
    ("A" :> 10) @@ ("B" :> 11) @@ ("C" :> 12) @@ ("D" :> 13) @@ ("E" :> 14) @@ ("F" :> 15) @@
    ("a" :> 10) @@ ("b" :> 11) @@ ("c" :> 12) @@ ("d" :> 13) @@ ("e" :> 14) @@ ("f" :> 15)

\* text is the hexadecimal numeral of a 32-bit value.
HexNumeral(text) ==
    Len(text) \in 1..8 /\ \A i \in 1..Len(text) : text[i] \in DOMAIN HexOf

\* The 8 hexadecimal digits of a numeral, the most significant first.
Nibbles(text) ==
    [i \in 1..8 |-> IF i <= 8 - Len(text) THEN 0 ELSE HexOf[text[i - (8 - Len(text))]]]

\* The category table as C7 gives it.
CategoryOf ==
    (0 :> "unknown") @@ (10 :> "unknown") @@ (14 :> "unknown") @@ (1 :> "Glider") @@
    (2 :> "TowPlane") @@ (3 :> "Copter") @@ (4 :> "Skydiver") @@ (5 :> "Aircraft") @@
    (8 :> "Aircraft") @@ (6 :> "HangGlider") @@ (7 :> "Paraglider") @@ (9 :> "Jet") @@
    (11 :> "Balloon") @@ (12 :> "Airship") @@ (13 :> "Drone") @@ (15 :> "StaticObstacle")

AddressTypeOf == (0 :> "UNKNOWN") @@ (1 :> "ICAO") @@ (2 :> "FLARM") @@ (3 :> "OGN_TRACKER")

\* C7: with v the hex value of the identity token, the stealth flag is bit 31
\* of v, the no-tracking flag bit 30, the aircraft category the table entry
\* of (v >> 26) & 0xF and the address type (v >> 24) & 0x3; 0ADDE626 gives
\* TowPlane / FLARM and 254D21C2 gives Jet / ICAO, both with the flags false.
C7_Identity ==
    LET id == FieldText("aircraftID")
        n  == Nibbles(id)
    IN  Returned /\ HexNumeral(id) =>
            /\ msg.stealthMode = (n[1] >= 8)
            /\ msg.noTrackingFlag = ((n[1] % 8) >= 4)
            /\ msg.aircraftType = CategoryOf[(n[1] % 4) * 4 + (n[2] \div 4)]
            /\ msg.addressType = AddressTypeOf[n[2] % 4]
            /\ id = <<"0", "A", "D", "D", "E", "6", "2", "6">> =>
                  /\ msg.aircraftType = "TowPlane" /\ msg.addressType = "FLARM"
                  /\ ~msg.stealthMode /\ ~msg.noTrackingFlag
            /\ id = <<"2", "5", "4", "D", "2", "1", "C", "2">> =>
                  /\ msg.aircraftType = "Jet" /\ msg.addressType = "ICAO"
                  /\ ~msg.stealthMode /\ ~msg.noTrackingFlag

\* An identity with the stealth bit and both address type bits set.
C7_Witness ==
    /\ Returned
    /\ HexNumeral(FieldText("aircraftID"))
    /\ msg.stealthMode
    /\ ~msg.noTrackingFlag
    /\ msg.aircraftType = "TowPlane"
    /\ msg.addressType = "OGN_TRACKER"

StartsWith(token, prefix) ==
    Len(token) >= Len(prefix) /\ SubSeq(token, 1, Len(prefix)) = prefix

EndsWith(token, suffix) ==
    Len(token) >= Len(suffix) /\
    SubSeq(token, Len(token) - Len(suffix) + 1, Len(token)) = suffix

\* The rules of C8 in their order, each with the field it stores to.
TokenRules ==
    <<"id", "t", "h", "b", "fpm", "rot", "dB", "e", "kHz", "FL", "A", "Sq", "gps">>

Matches(token, rule) ==
    CASE rule = "id"  -> StartsWith(token, <<"i", "d">>)
      [] rule = "t"   -> StartsWith(token, <<"t">>)
      [] rule = "h"   -> StartsWith(token, <<"h">>)
      [] rule = "b"   -> StartsWith(token, <<"b">>)
      [] rule = "fpm" -> EndsWith(token, <<"f", "p", "m">>)
      [] rule = "rot" -> EndsWith(token, <<"r", "o", "t">>)
      [] rule = "dB"  -> EndsWith(token, <<"d", "B">>)
      [] rule = "e"   -> EndsWith(token, <<"e">>)
      [] rule = "kHz" -> EndsWith(token, <<"k", "H", "z">>)
      [] rule = "FL"  -> StartsWith(token, <<"F", "L">>)
      [] rule = "A"   -> StartsWith(token, <<"A">>) /\ Len(token) >= 3 /\ token[3] = ":"
      [] rule = "Sq"  -> StartsWith(token, <<"S", "q">>)
      [] rule = "gps" -> StartsWith(token, <<"g", "p", "s", ":">>)

FieldOf ==
    ("id" :> "aircraftID") @@ ("t" :> "temperature") @@ ("h" :> "humidity") @@
    ("b" :> "pressure") @@ ("fpm" :> "verticalSpeed") @@ ("rot" :> "rotationRate") @@
    ("dB" :> "signalStrength") @@ ("e" :> "errorCount") @@ ("kHz" :> "frequencyOffset") @@
    ("FL" :> "flightlevel") @@ ("A" :> "flightnumber") @@ ("Sq" :> "squawk") @@
    ("gps" :> "gpsInfo")

\* The first rule a token matches, or "none".
RuleOf(token) ==
    LET matching == {k \in 1..Len(TokenRules) : Matches(token, TokenRules[k])}
    IN  IF matching = {} THEN "none"
        ELSE TokenRules[CHOOSE k \in matching : \A j \in matching : k <= j]

\* The indices of the OGN part at which a token begins.
TokenStarts(ogn) ==
    {i \in 1..Len(ogn) : ogn[i] # " " /\ (i = 1 \/ ogn[i - 1] = " ")}

\* The token that begins at index i.
TokenFrom(ogn, i) ==
    LET rest == SubSeq(ogn, i, Len(ogn))
    IN  IF PosOf(rest, " ") = 0 THEN rest ELSE SubSeq(rest, 1, PosOf(rest, " ") - 1)

Tokens(ogn) == {TokenFrom(ogn, i) : i \in TokenStarts(ogn)}

\* The next token when a characters of the OGN part are consumed, or <<>>.
NextToken(ogn, a) ==
    LET ahead == {i \in TokenStarts(ogn) : i > a}
    IN  IF ahead = {} THEN <<>>
        ELSE TokenFrom(ogn, CHOOSE i \in ahead : \A j \in ahead : i <= j)

\* The token the loop is about to handle.
CurrentToken == NextToken(ClaimOgnPart(msg.sentence), it)

\* A step of the loop over the OGN part.
TokenStep == pc = "loop" /\ pc' = "loop"

\* C8: a token is handled by the first rule it matches, in the order id, t,
\* h, b, fpm, rot, dB, e, kHz, FL, A with ':' at index 2, Sq, gps:, and by no
\* other: it changes no field but that rule's (a token ending in 'rot'
\* never sets signal strength, error count or frequency offset), and a token
\* that matches no rule changes nothing.
C8_FirstRuleOnly ==
    [][TokenStep =>
          \A f \in DOMAIN msg :
              msg'[f] # msg[f] =>
                  /\ RuleOf(CurrentToken) # "none"
                  /\ f = FieldOf[RuleOf(CurrentToken)]]_vars

\* The token "FLe" is stored by the rule of the suffix 'e', not by that of 'FL'.
C8_Witness ==
    /\ Returned
    /\ FieldText("errorCount") = <<"F", "L", "e">>
    /\ FieldText("flightlevel") = <<>>

\* text is an optional '-' and digits, one digit at least.
IntegerShape(text) == NumberShape(text) /\ PosOf(text, ".") = 0

BeginsWithInteger(text) == \E k \in 1..Len(text) : IntegerShape(SubSeq(text, 1, k))

\* The longest integer text begins with.
LeadingInteger(text) ==
    LET k == CHOOSE k \in 1..Len(text) :
                 /\ IntegerShape(SubSeq(text, 1, k))
                 /\ \A j \in (k + 1)..Len(text) : ~IntegerShape(SubSeq(text, 1, j))
    IN  SubSeq(text, 1, k)

\* The text of a borrowed field of a record.
TextIn(m, f) == TextOf(m.sentence, m[f])

\* The text before the suffix 'fpm' of a token, without one leading '+'.
FpmNumber(token) ==
    LET before == SubSeq(token, 1, Len(token) - 3)
    IN  IF Len(before) > 0 /\ before[1] = "+" THEN Tail(before) ELSE before

\* What a token stores, by its rule; the vertical speed for an integer of at
\* most 7 digits, in units of 0.00004 m/s (1 fpm = 0.00508 m/s = 127 units).
C9_Stores ==
    LET token == CurrentToken
        rule  == RuleOf(token)
        after == msg'
    IN  TokenStep =>
            /\ rule = "id" => TextIn(after, "aircraftID") = SubSeq(token, 3, Len(token))
            /\ rule = "rot" => TextIn(after, "rotationRate") = token
            /\ rule = "dB" => TextIn(after, "signalStrength") = token
            /\ rule = "e" => TextIn(after, "errorCount") = token
            /\ rule = "kHz" => TextIn(after, "frequencyOffset") = token
            /\ rule = "FL" => TextIn(after, "flightlevel") = token
            /\ rule = "A" => TextIn(after, "flightnumber") = SubSeq(token, 4, Len(token))
            /\ rule = "Sq" => TextIn(after, "squawk") = SubSeq(token, 3, Len(token))
            /\ rule = "gps" => TextIn(after, "gpsInfo") = SubSeq(token, 5, Len(token))
            /\ rule = "fpm" /\ BeginsWithInteger(FpmNumber(token))
                  /\ Len(LeadingInteger(FpmNumber(token))) <= 7 =>
                  after.verticalSpeed = 127 * ValueOf(LeadingInteger(FpmNumber(token)), 1)

\* The fields of the rules no token of the line is handled by are at their
\* defaults.
C9_Absent ==
    Returned =>
        \A rule \in {"id", "fpm", "rot", "dB", "e", "kHz", "FL", "A", "Sq", "gps"} :
            (\A token \in Tokens(ClaimOgnPart(msg.sentence)) : RuleOf(token) # rule) =>
                msg[FieldOf[rule]] = OgnMessage[FieldOf[rule]]

\* C9: an 'id' token stores the text after 'id' as aircraft id; tokens ending
\* in 'rot', 'dB', 'e', 'kHz' are stored whole as rotation rate, signal
\* strength, error count and frequency offset; an 'FL' token is stored whole
\* as flight level; 'A?:text' stores the text after the colon at index 2 as
\* flight number; 'Sq' and 'gps:' tokens store the text after the prefix; an
\* 'fpm' token stores n x 0.00508 as vertical speed, n the signed integer
\* before 'fpm' with one leading '+' removed; the fields of token kinds that
\* are absent from the line stay empty / 0.
C9_StoredValues == [](C9_Absent) /\ [][C9_Stores]_vars

\* C10: in a TrafficReport record course and speed are decoded iff the APRS
\* part has at least 34 characters and '/' at offset 30: then the course is
\* the integer at offsets 27..29 and the speed the integer at offsets 31..33,
\* otherwise both are 0; in a Weather record both are 0.
C10_CourseSpeed ==
    LET aprs   == ClaimAprsPart(msg.sentence)
        course == SubSeq(aprs, 28, 30)
        speed  == SubSeq(aprs, 32, 34)
    IN  /\ Returned /\ msg.type = "TRAFFIC_REPORT" =>
              IF Len(aprs) >= 34 /\ aprs[31] = "/"
              THEN /\ BeginsWithInteger(course) =>
                          msg.course = ValueOf(LeadingInteger(course), 1)
                   /\ BeginsWithInteger(speed) =>
                          msg.speed = ValueOf(LeadingInteger(speed), 1)
              ELSE msg.course = 0 /\ msg.speed = 0
        /\ Returned /\ msg.type = "WEATHER" => msg.course = 0 /\ msg.speed = 0

\* A traffic report whose altitude follows the symbol code directly.
C10_Witness ==
    /\ Returned
    /\ msg.type = "TRAFFIC_REPORT"
    /\ SubSeq(ClaimAprsPart(msg.sentence), 28, 30) = <<"/", "A", "=">>
    /\ msg.course = 0
    /\ msg.speed = 0
    /\ ~msg.altitude.nan

\* The index in text of the first occurrence of pattern, or 0.
FirstPos(text, pattern) ==
    LET found == {i \in 1..(Len(text) - Len(pattern) + 1) :
                     SubSeq(text, i, i + Len(pattern) - 1) = pattern}
    IN  IF found = {} THEN 0 ELSE CHOOSE i \in found : \A j \in found : i <= j

\* At most n characters of text from index i on.
UpTo(text, i, n) == SubSeq(text, i, IF i + n - 1 < Len(text) THEN i + n - 1 ELSE Len(text))

\* The at most 6 characters after the first "/A=" of the APRS part.
AltitudeText(line) ==
    LET aprs == ClaimAprsPart(line)
    IN  UpTo(aprs, FirstPos(aprs, <<"/", "A", "=">>) + 3, 6)

\* C11: the altitude is not NaN iff the kind is TrafficReport and the APRS
\* part contains "/A=", its first occurrence followed by text that begins with
\* an integer; the altitude is then feet x 0.3048 (762 units of 0.0004 m),
\* feet the integer read from the at most 6 characters after that "/A=".  A
\* Weather record keeps the altitude NaN.
C11_Altitude ==
    LET line    == msg.sentence
        decoded == /\ msg.type = "TRAFFIC_REPORT"
                   /\ FirstPos(ClaimAprsPart(line), <<"/", "A", "=">>) > 0
                   /\ BeginsWithInteger(AltitudeText(line))
    IN  Returned =>
            /\ ~msg.altitude.nan <=> decoded
            /\ decoded => msg.altitude.v = 762 * ValueOf(LeadingInteger(AltitudeText(line)), 1)
            /\ msg.type = "WEATHER" => msg.altitude.nan

\* An altitude of 7 digits, of which 6 are read.
C11_Witness ==
    /\ Returned
    /\ msg.type = "TRAFFIC_REPORT"
    /\ FirstPos(ClaimAprsPart(msg.sentence), <<"/", "A", "=", "1", "2", "3", "4", "5", "6", "7">>) > 0
    /\ msg.altitude = Num(762 * 123456)

\* The first "!W" of the body is used: with p its offset, the body has more
\* than p + 4 characters.
MarkerUsed(line) ==
    LET body == ClaimBody(line)
        p    == FirstPos(body, <<"!", "W">>) - 1
    IN  p >= 0 /\ Len(body) > p + 4

\* The digit at offset p + 1 + k of the body, or 0 when the marker is not
\* used or the character is no digit.
RefiningDigit(line, k) ==
    LET body == ClaimBody(line)
        c    == body[FirstPos(body, <<"!", "W">>) + 1 + k]
    IN  IF MarkerUsed(line) /\ c \in DOMAIN DigitOf THEN DigitOf[c] ELSE 0

\* coordinate is unrefined with d x 0.001/60 degrees (10 d units) added to its
\* magnitude before the sign of the letter negative.
Refines(coordinate, unrefined, d, letter, negative) ==
    /\ coordinate.nan = unrefined.nan
    /\ ~unrefined.nan =>
          coordinate.v = IF letter = negative THEN unrefined.v - 10 * d
                         ELSE unrefined.v + 10 * d

\* C12: the first "!W" of the body, at offset p, is used when the body has
\* more than p + 4 characters; the character at p + 2 then refines the
\* latitude and the character at p + 3 the longitude, each by itself and only
\* if it is a digit d, by d x 0.001/60 degrees added to the magnitude before
\* the sign of S / W is applied, which moves a southern or western coordinate
\* away from zero; without such a marker the coordinates are the unrefined
\* values.
C12_Enhancement ==
    LET line == msg.sentence
        aprs == ClaimAprsPart(line)
        lat0 == LatitudeOf(line, 0)
        lon0 == LongitudeOf(line, 0)
    IN  Returned /\ Decodable(line) =>
            /\ Refines(msg.latitude, lat0, RefiningDigit(line, 1), aprs[16], "S")
            /\ Refines(msg.longitude, lon0, RefiningDigit(line, 2), aprs[26], "W")
            /\ ~MarkerUsed(line) => msg.latitude = lat0 /\ msg.longitude = lon0
            /\ ~lat0.nan /\ lat0.v <= 0 /\ aprs[16] = "S" => msg.latitude.v <= lat0.v
            /\ ~lon0.nan /\ lon0.v <= 0 /\ aprs[26] = "W" => msg.longitude.v <= lon0.v

\* A western longitude refined beside a latitude whose character is no digit.
C12_Witness ==
    /\ Returned
    /\ Decodable(msg.sentence)
    /\ MarkerUsed(msg.sentence)
    /\ RefiningDigit(msg.sentence, 2) = 7
    /\ ~msg.latitude.nan
    /\ msg.latitude = LatitudeOf(msg.sentence, 0)
    /\ msg.longitude.v = LongitudeOf(msg.sentence, 0).v - 70
    /\ msg.longitude.v < 0

\* The record fields that are decoded from a sub-field.
FieldsOfPart ==
    ("lat" :> {"latitude"}) @@ ("lon" :> {"longitude"}) @@ ("course" :> {"course"}) @@
    ("speed" :> {"speed"}) @@ ("alt" :> {"altitude"}) @@
    ("id" :> {"aircraftID", "aircraftType", "addressType", "address", "stealthMode",
              "noTrackingFlag"}) @@
    ("fpm" :> {"verticalSpeed"}) @@ ("rot" :> {"rotationRate"}) @@
    ("dB" :> {"signalStrength"}) @@ ("wdir" :> {"wind_direction"}) @@
    ("wspd" :> {"wind_speed"}) @@ ("gust" :> {"wind_gust_speed"}) @@
    ("temp" :> {"temperature"}) @@ ("hum" :> {"humidity"}) @@ ("pres" :> {"pressure"})

\* The fields that borrow their text from the sentence.
BorrowedFields ==
    {"sourceId", "timestamp", "aircraftID", "rotationRate", "signalStrength", "errorCount",
     "frequencyOffset", "squawk", "flightlevel", "flightnumber", "gpsInfo", "address"}

\* Field f has the same value in the records a and b of two sentences.
SameValue(a, b, f) ==
    IF f \in BorrowedFields THEN TextIn(a, f) = TextIn(b, f) ELSE a[f] = b[f]

\* The record parseAprsisMessage leaves for a sentence.
RecordOf(line) == parseAprsisMessage([OgnMessage EXCEPT !.sentence = line])

\* The record is that of the well-formed sentence but for the fields of the
\* missed sub-field, which are at their defaults.
Isolated(wellFormed, miss) ==
    \A f \in DOMAIN msg \ {"sentence"} :
        IF f \in FieldsOfPart[miss.part]
        THEN msg[f] = OgnMessage[f]
        ELSE SameValue(msg, RecordOf(wellFormed), f)

C14_StatusSourceId ==
    LET line   == msg.sentence
        header == ClaimHeader(line)
    IN  Returned /\ Structured(line) /\ ClaimBody(line)[1] = ">" =>
            /\ msg.type = "STATUS"
            /\ PosOf(header, ">") > 0 =>
                  FieldText("sourceId") = SubSeq(header, 1, PosOf(header, ">") - 1)

\* The upper case of a hexadecimal digit character.
UpperOf(c) ==
    CASE c = "a" -> "A" [] c = "b" -> "B" [] c = "c" -> "C" [] c = "d" -> "D"
      [] c = "e" -> "E" [] c = "f" -> "F" [] OTHER -> c

\* C15: when the identity token has at least 8 characters and decodes, the
\* address is characters 2..7 of the token, 6 characters, stored as upper case
\* hexadecimal text: id0adde626 yields DDE626.
C15_AddressUpperCase ==
    LET id == FieldText("aircraftID")
    IN  Returned /\ Len(id) >= 8 /\ HexNumeral(id) =>
            FieldText("address") = [i \in 1..6 |-> UpperOf(id[i + 2])]

\* C16: if the text after 'id' is not a hexadecimal numeral that fits 32
\* bits (it is empty, holds a character that is no hex digit, or exceeds
\* 0xFFFFFFFF), nothing is decoded from it: category and address type stay
\* Unknown, the address empty, stealth and no-tracking false.
C16_MalformedIdentity ==
    Returned /\ ~HexNumeral(FieldText("aircraftID")) =>
        /\ msg.aircraftType = "unknown"
        /\ msg.addressType = "UNKNOWN"
        /\ FieldText("address") = <<>>
        /\ ~msg.stealthMode
        /\ ~msg.noTrackingFlag

\* The line with its OGN part replaced.
WithOgnPart(line, ogn) ==
    SubSeq(line, 1, Len(line) - Len(ClaimOgnPart(line))) \o ogn

\* The OGN part with the tokens that begin at a and at b (a before b) exchanged.
Exchanged(ogn, a, b) ==
    LET first  == TokenFrom(ogn, a)
        second == TokenFrom(ogn, b)
    IN  SubSeq(ogn, 1, a - 1) \o second \o SubSeq(ogn, a + Len(first), b - 1)
            \o first \o SubSeq(ogn, b + Len(second), Len(ogn))

\* The OGN parts with two neighbouring tokens exchanged; they generate every
\* permutation of the tokens.
Exchanges(ogn) ==
    {Exchanged(ogn, p[1], p[2]) :
        p \in {n \in TokenStarts(ogn) \X TokenStarts(ogn) :
                  /\ n[1] < n[2]
                  /\ \A j \in TokenStarts(ogn) : j > n[1] => n[2] <= j}}

\* The OGN parts with one more blank before, between or after the tokens.
Respacings(ogn) ==
    {SubSeq(ogn, 1, j) \o <<" ">> \o SubSeq(ogn, j + 1, Len(ogn)) :
        j \in {i \in 0..Len(ogn) : i = 0 \/ i = Len(ogn) \/ ogn[i] = " " \/ ogn[i + 1] = " "}}

\* No two tokens of the OGN part are handled by the same rule.
DistinctRules(ogn) ==
    \A a, b \in TokenStarts(ogn) :
        a # b /\ RuleOf(TokenFrom(ogn, a)) # "none" =>
            RuleOf(TokenFrom(ogn, a)) # RuleOf(TokenFrom(ogn, b))

\* The record agrees in the given fields with the record of every line that
\* has the same tokens in another order or with another spacing.
OrderAndSpacingFree(fields) ==
    LET line == msg.sentence
        ogn  == ClaimOgnPart(line)
    IN  \A other \in Exchanges(ogn) \cup Respacings(ogn) :
            LET record == RecordOf(WithOgnPart(line, other))
            IN  \A f \in fields : SameValue(msg, record, f)

\* The body has an OGN part.
HasOgnPart(line) == Decodable(line) /\ PosOf(ClaimBody(line), " ") > 0

\* C17 as stated: permuting the tokens of the OGN part, or inserting blanks
\* before, between or after them, yields a record with the same field values.
C17_AnyOrder ==
    Returned /\ HasOgnPart(msg.sentence) =>
        OrderAndSpacingFree(DOMAIN msg \ {"sentence"})

\* C17 (amended): when no two tokens of the OGN part are handled by the same
\* rule, permuting the tokens, or inserting blanks before, between or after
\* them, yields a record with the same values in every field but latitude and
\* longitude.
C17_OrderAndSpacing ==
    Returned /\ HasOgnPart(msg.sentence) /\ DistinctRules(ClaimOgnPart(msg.sentence)) =>
        OrderAndSpacingFree(DOMAIN msg \ {"sentence", "latitude", "longitude"})

\* Two tokens of different rules between repeated blanks, both stored.
C17_Witness ==
    /\ Returned
    /\ HasOgnPart(msg.sentence)
    /\ DistinctRules(ClaimOgnPart(msg.sentence))
    /\ Cardinality(TokenStarts(ClaimOgnPart(msg.sentence))) = 2
    /\ FirstPos(ClaimOgnPart(msg.sentence), <<" ", " ">>) > 0
    /\ FieldText("aircraftID") # <<>>
    /\ FieldText("signalStrength") # <<>>

\* The text of an integer in a field of at least width characters, filled
\* with zeros after the sign: the conversions %03d and %06d.
AsPadded(n, width) ==
    LET digits == DecimalText(IF n < 0 THEN 0 - n ELSE n)
        sign   == IF n < 0 THEN <<"-">> ELSE <<>>
        fill   == [i \in 1..(width - Len(digits) - Len(sign)) |-> "0"]
    IN  sign \o fill \o digits

\* The symbol pair of a category: its entry of the Symbol Table, or the
\* Aircraft code for a category without an entry.
SymbolPairOf(category) ==
    CASE category = "unknown"        -> <<"/", "z">>
      [] category = "Glider"         -> <<"/", "'">>
      [] category = "Copter"         -> <<"/", "X">>
      [] category = "Paraglider"     -> <<"/", "g">>
      [] category = "Aircraft"       -> <<"\\", "^">>
      [] category = "Jet"            -> <<"/", "^">>
      [] category = "Balloon"        -> <<"/", "O">>
      [] category = "StaticObstacle" -> <<"\\", "n">>
      [] category \in {"Airship", "Drone", "HangGlider", "Skydiver", "TowPlane"}
                                     -> <<"\\", "^">>

\* The position report of the arguments, as the claim composes it.
PositionReportOf(a) ==
    a.callSign \o <<">", "A", "P", "R", "S", ",", "T", "C", "P", "I", "P", "*", ":", " ", "/">> \o AsPadded(a.now[1], 2) \o AsPadded(a.now[2], 2)
        \o AsPadded(a.now[3], 2) \o <<"h">> \o formatLatitude(a.latitude)
        \o <<SymbolPairOf(a.aircraftType)[1]>> \o formatLongitude(a.longitude)
        \o <<SymbolPairOf(a.aircraftType)[2]>>
        \o AsPadded(TruncatedTenths(a.course), 3) \o <<"/">>
        \o AsPadded(TruncatedTenths(a.speed), 3) \o <<"/", "A", "=">>
        \o AsPadded(altitudeFeet(a.altitude), 6) \o <<"\n">>

\* C18 as stated: formatPositionReport returns the call sign, ">APRS,TCPIP*: /",
\* the time, "h", the latitude, the symbol table character, the longitude, the
\* symbol code character, the course as %03d, "/", the speed as %03d, "/A=",
\* the altitude in feet as %06d and a newline, the symbol pair being the entry
\* of the category or, without one, the Aircraft code.
C18_PositionReport ==
    formatted.op = "formatPositionReport" => formatted.text = PositionReportOf(formatted.args)

RECURSIVE ByteSum(_)
\* The sum of the byte values of the characters of a text.
ByteSum(text) == IF text = <<>> THEN 0 ELSE ByteOf(Head(text)) + ByteSum(Tail(text))

\* The checksum of a call sign: the sum of the byte values of its first
\* min(6, length) characters, mod 10000.
ChecksumOf(callSign) ==
    ByteSum(SubSeq(callSign, 1, IF Len(callSign) < 6 THEN Len(callSign) ELSE 6)) % 10000

\* C19: formatLoginString returns "user ", the whole call sign, " pass ", the
\* decimal text of the checksum of the first min(6, length) characters of the
\* call sign, " vers ", the application, " ", the version, " ", the filter and
\* a newline.
C19_LoginString ==
    formatted.op = "formatLoginString" =>
        LET a == formatted.args
        IN  formatted.text =
                <<"u", "s", "e", "r", " ">> \o a.callSign \o <<" ", "p", "a", "s", "s", " ">> \o DecimalText(ChecksumOf(a.callSign)) \o <<" ", "v", "e", "r", "s", " ">>
                    \o a.appName \o <<" ">> \o a.appVersion \o <<" ">>
                    \o formatFilter(a.latitude, a.longitude, a.receiveRadius) \o <<"\n">>

\* A login with a call sign of eight characters, whose checksum is that of
\* the call sign of the tests, with the same first six characters.
C19_Witness ==
    /\ formatted.op = "formatLoginString"
    /\ formatted.args.callSign = <<"E", "N", "R", "1", "2", "3", "9", "9">>
    /\ FirstPos(formatted.text, <<"u", "s", "e", "r", " ", "E", "N", "R", "1", "2", "3", "9", "9", " ", "p", "a", "s", "s", " ", "3", "7", "9", " ", "v", "e", "r", "s", " ">>) = 1

\* The filter text F of the claim: "filter r/", the latitude to 4 decimals,
\* "/", the longitude to 4 decimals, "/", the radius, " t/o".
FilterTextOf(a) ==
    <<"f", "i", "l", "t", "e", "r", " ", "r", "/">> \o PrintfFixed4(a.latitude, 0) \o <<"/">> \o PrintfFixed4(a.longitude, 0)
        \o <<"/">> \o DecimalText(a.receiveRadius) \o <<" ", "t", "/", "o">>

\* What formatLoginString returns for the arguments before and after its
\* filter is the claimed text, and the filter is the given one.
LoginEmits(filter, a, callSign, appName, appVersion) ==
    formatLoginString(callSign, a.latitude, a.longitude, a.receiveRadius, appName, appVersion)
        = <<"u", "s", "e", "r", " ">> \o callSign \o <<" ", "p", "a", "s", "s", " ">> \o DecimalText(ChecksumOf(callSign)) \o <<" ", "v", "e", "r", "s", " ">>
              \o appName \o <<" ">> \o appVersion \o <<" ">> \o filter \o <<"\n">>

\* C20 as stated: for all arguments formatFilterCommand returns "# ", the
\* filter text F and a newline, F being "filter r/<lat to 4 decimals>/<lon to
\* 4 decimals>/<r> t/o" and the filter text that formatLoginString emits for
\* the same three arguments.
C20_FilterCommand ==
    formatted.op = "formatFilterCommand" =>
        LET F == FilterTextOf(formatted.args)
        IN  /\ formatted.text = <<"#", " ">> \o F \o <<"\n">>
            /\ \A callSign \in CallSigns, appName \in AppNames, appVersion \in AppVersions :
                   LoginEmits(F, formatted.args, callSign, appName, appVersion)

\* The encoded latitude and longitude of the returned position report.
EncodedLatitude ==
    SubSeq(formatted.text, Len(formatted.args.callSign) + 23,
           Len(formatted.args.callSign) + 22 + Len(formatLatitude(formatted.args.latitude)))

EncodedLongitude ==
    LET from == Len(formatted.args.callSign) + 24
                    + Len(formatLatitude(formatted.args.latitude))
    IN  SubSeq(formatted.text, from,
               from + Len(formatLongitude(formatted.args.longitude)) - 1)

\* A double of the formatter in millionths of a degree.
Millionths(d) ==
    IF d.neg THEN 0 - ((d.whole * 1000000) + d.micro) ELSE (d.whole * 1000000) + d.micro

\* The decoded coordinate, a count of 1/600000 degree, is a number within
\* 1e-4 degrees of x.
Within1e4(decoded, x) ==
    /\ ~decoded.nan
    /\ (decoded.v * 10) - (Millionths(x) * 6) <= 600
    /\ (Millionths(x) * 6) - (decoded.v * 10) <= 600

FixedWidthForm(text, x, degreeDigits, letter) ==
    /\ Len(text) = degreeDigits + 6
    /\ \A i \in (1..(degreeDigits + 5)) \ {degreeDigits + 3} : text[i] \in DOMAIN DigitOf
    /\ text[degreeDigits + 3] = "."
    /\ ValueOf(SubSeq(text, 1, degreeDigits), 1) = x.whole
    /\ ValueOf(SubSeq(text, degreeDigits + 1, degreeDigits + 2), 1) <= 59
    /\ text[degreeDigits + 6] = letter

\* C27 as stated: for |x| < 90 the encoded latitude is the 8 characters
\* DDMM.mmH with the degrees of |x|, minutes between 00.00 and 59.99, and H = N
\* for x >= 0, S for x < 0; for |x| < 180 the encoded longitude is the 9
\* characters DDDMM.mmH, with E for x >= 0 and W for x < 0.
C27_FixedWidth ==
    formatted.op = "formatPositionReport" =>
        LET lat == formatted.args.latitude
            lon == formatted.args.longitude
        IN  /\ lat.zeros = 0 /\ lat.whole < 90 =>
                   FixedWidthForm(EncodedLatitude, lat, 2,
                                  IF Millionths(lat) >= 0 THEN "N" ELSE "S")
            /\ lon.zeros = 0 /\ lon.whole < 180 =>
                   FixedWidthForm(EncodedLongitude, lon, 3,
                                  IF Millionths(lon) >= 0 THEN "E" ELSE "W")

\* C22: a record that is idle, newly constructed or after reset(), has in
\* every field the value of a newly constructed record, and the record a
\* decode returns is the one a decode of the same sentence on a newly
\* constructed record returns, whatever was decoded before.
C22_NoStaleState ==
    /\ pc = "idle" => msg = OgnMessage
    /\ Returned => msg = RecordOf(msg.sentence)

\* A decoded traffic report with identity, weather-free, whose record the
\* next round resets or replaces.
C22_Witness ==
    /\ Returned
    /\ msg.type = "TRAFFIC_REPORT"
    /\ FieldText("address") # <<>>
    /\ FieldText("frequencyOffset") # <<>>
    /\ msg.aircraftType # "unknown"
    /\ msg = RecordOf(msg.sentence)

\* C23 as stated: under every interleaving of the threads' reads and writes
\* of the cache, each call of formatPositionReport emits the two symbol
\* characters of its own category, and no call indexes the cached symbol
\* while it is empty or holds the symbol of another call.
C23_ConcurrentCalls ==
    \A t \in Threads :
        /\ ~threads[t].misread
        /\ threads[t].pc = "return" =>
               threads[t].symbol = SymbolPairOf(threads[t].aircraftType)

\* The minimum structural length: a 5-character header, the colon and a
\* 5-character body.
MinStructuralLen == 11

\* C24 as stated: for every line shorter than 11 characters the kind returned
\* is Unknown, and no character outside the line is read.
C24_ShortLinesUnknown ==
    /\ ~oob
    /\ Returned /\ Len(msg.sentence) < MinStructuralLen => msg.type = "UNKNOWN"

\* C24, amended: for every line shorter than 11 characters that does not
\* begin with '#' the kind returned is Unknown; for one that begins with '#'
\* it is Comment; no character outside the line is read.
C24_ShortLines ==
    /\ ~oob
    /\ Returned /\ Len(msg.sentence) < MinStructuralLen =>
          IF Len(msg.sentence) > 0 /\ msg.sentence[1] = "#"
          THEN msg.type = "COMMENT"
          ELSE msg.type = "UNKNOWN"

\* A line of 10 characters with a header of 5 and a body of 4 that begins
\* with '>'.
C24_Witness ==
    /\ Returned
    /\ Len(msg.sentence) = MinStructuralLen - 1
    /\ PosOf(msg.sentence, ":") = 6
    /\ msg.sentence[7] = ">"
    /\ msg.type = "UNKNOWN"

\* The view lies inside the outer view.
Inside(v, outer) == v.pos >= outer.pos /\ v.pos + v.len <= outer.pos + outer.len

\* C25: parseAprsisMessage leaves the sentence text as it was before the call,
\* and when it returns every non-empty borrowed text field is a contiguous
\* part of that text; the address, when not empty, lies inside the aircraft id.
C25_BorrowedFromSentence ==
    [][/\ pc \in {"call", "loop"} => msg'.sentence = msg.sentence
       /\ pc \in {"call", "loop"} /\ pc' = "done" =>
             /\ \A f \in BorrowedFields :
                   msg'[f].len > 0 => Inside(msg'[f], WholeView(msg'.sentence))
             /\ msg'.address.len > 0 => Inside(msg'.address, msg'.aircraftID)]_vars

\* A decoded sentence with an address, a flight level, a flight number and a
\* squawk.
C25_Witness ==
    /\ Returned
    /\ Len(FieldText("address")) = 6
    /\ Len(FieldText("flightlevel")) > 0
    /\ Len(FieldText("flightnumber")) > 0
    /\ Len(FieldText("squawk")) > 0

\* The two symbol characters of the returned position report: the one before
\* and the one after the encoded longitude.
EmittedSymbol ==
    LET from == Len(formatted.args.callSign) + 23
                    + Len(formatLatitude(formatted.args.latitude))
    IN  <<formatted.text[from],
          formatted.text[from + 1 + Len(formatLongitude(formatted.args.longitude))]>>

Undecoded(record) ==
    /\ record.type = "UNKNOWN"
    /\ record.latitude.nan
    /\ record.longitude.nan
    /\ record.altitude.nan

\* C29: for a call sign with no ':' and no leading '#', the line
\* formatPositionReport returns has a blank as the first character after its
\* first ':', and parseAprsisMessage applied to the line, with its final
\* newline or without it, returns kind Unknown with latitude, longitude and
\* altitude NaN.
C29_OwnReportNotDecoded ==
    formatted.op = "formatPositionReport"
        /\ PosOf(formatted.args.callSign, ":") = 0
        /\ (formatted.args.callSign = <<>> \/ formatted.args.callSign[1] # "#") =>
            LET line     == formatted.text
                stripped == SubSeq(line, 1, Len(line) - 1)
            IN  /\ line[Len(line)] = "\n"
                /\ line[PosOf(line, ":") + 1] = " "
                /\ line[PosOf(line, ":") + 2] = "/"
                /\ Undecoded(RecordOf(line))
                /\ Undecoded(RecordOf(stripped))

\* The report of the test of the formatter.
C29_Witness ==
    /\ formatted.op = "formatPositionReport"
    /\ formatted.args.callSign = <<"E", "N", "R", "1", "2", "3", "4", "5">>
    /\ formatted.args.aircraftType = "Glider"
    /\ EncodedLatitude = <<"5", "1", "1", "1", ".", "3", "2", "N">>
    /\ RecordOf(formatted.text).type = "UNKNOWN"

\* 2^32 - n as a uint32_t, for 0 < n < 2^31.
TwoTo32Minus(n) == U32(65535 - ((n - 1) \div 65536), 65535 - ((n - 1) % 65536))

\* The temperature the claim gives for a report with the weather temperature
\* w (of a weather block) and the OGN token of t.
ClaimedTemperature(kind, w, t) ==
    IF t.present THEN (IF t.value < 0 THEN TwoTo32Minus(0 - t.value) ELSE U32(0, t.value))
    ELSE IF kind = "WEATHER" /\ w = <<"t", "0", "3", "0">> THEN U32(0, 30)
    ELSE U32(0, 0)

\* C30: the temperature is a uint32_t.  An OGN token t followed by -n, with
\* 0 < n < 2^31, is read as an int and stored as 2^32 - n; in the weather
\* block a t followed by '-' fails the unsigned read and leaves the temperature
\* 0; in a weather report with both, the value of the OGN token, read later,
\* is the one stored.
C30_Temperature ==
    \A kind \in {"TRAFFIC_REPORT", "WEATHER"}, w \in WeatherTemperatures,
       t \in TokenTemperatures :
        Returned /\ msg.sentence = TemperatureSentence(kind, w, t) =>
            /\ msg.type = kind
            /\ msg.temperature = ClaimedTemperature(kind, w, t)

\* A weather report with the temperature 030 in its weather block and the
\* OGN token t-5.
C30_Witness ==
    /\ Returned
    /\ msg.type = "WEATHER"
    /\ msg.sentence = TemperatureSentence("WEATHER", <<"t", "0", "3", "0">>,
                                           [present |-> TRUE, value |-> -5])
    /\ msg.temperature = U32(65535, 65531)

RECURSIVE SplitAtNewlines(_, _)
\* The text split at each newline, with one carriage return removed from the
\* end of a line; what follows the last newline is no line.  current is the
\* line begun before the text.
SplitAtNewlines(text, current) ==
    IF text = <<>> THEN <<>>
    ELSE IF Head(text) = "\n"
         THEN <<IF current # <<>> /\ current[Len(current)] = "\r"
                THEN SubSeq(current, 1, Len(current) - 1) ELSE current>>
                  \o SplitAtNewlines(Tail(text), <<>>)
         ELSE SplitAtNewlines(Tail(text), Append(current, Head(text)))

RECURSIVE AfterLastNewline(_)
\* The characters of the text after its last newline.
AfterLastNewline(text) ==
    IF text = <<>> \/ text[Len(text)] = "\n" THEN <<>>
    ELSE Append(AfterLastNewline(SubSeq(text, 1, Len(text) - 1)), text[Len(text)])

\* C28: however recv splits the stream into chunks, whenever readLine waits
\* for bytes or has returned false the lines it has returned so far are the
\* bytes received so far split at each newline, in order, with one carriage
\* return removed from the end of a line, and the buffer holds the bytes after
\* the last newline, which are never returned as a line; no line is returned
\* before its newline is received.
C28_ChunkingIndependent ==
    LET got == SubSeq(reader.stream, 1, reader.received)
    IN  /\ reader.pc \in {"recv", "closed"} =>
              /\ reader.lines = SplitAtNewlines(got, <<>>)
              /\ reader.buffer = AfterLastNewline(got)
        /\ Len(reader.lines) <= Len(SplitAtNewlines(got, <<>>))
        /\ reader.lines = SubSeq(SplitAtNewlines(got, <<>>), 1, Len(reader.lines))

\* The stream "a\r\na" received in two chunks, the first ending between the
\* carriage return and the newline, and then closed.
C28_Witness ==
    /\ reader.pc = "closed"
    /\ reader.stream = <<"a", "\r", "\n", "a">>
    /\ reader.chunks = <<2, 2>>
    /\ reader.lines = <<<<"a">>>>
    /\ reader.buffer = <<"a">>

=============================================================================
